---- MODULE Spec2Model ----
(***************************************************************************)
(* Model of the scan orchestration core of visa_check:                     *)
(*   - SessionManager   (src/backend/core/session_manager.py)              *)
(*   - OTPHandler       (src/backend/auth/otp_handler.py)                  *)
(*   - ProxyManager     (src/backend/core/proxy_manager.py)                *)
(*   - AppointmentScanner (src/backend/scanner/appointment_scanner.py)     *)
(*   - the scan endpoints of src/backend/main.py                           *)
(*   - ScreenDetector   (src/backend/scanner/screen_detector.py)           *)
(*   - AvailabilityChecker (src/backend/scanner/availability_checker.py)   *)
(*   - Notifier         (src/backend/notifications/notifier.py)            *)
(*   - SMSOTPStore      (src/backend/auth/sms_webhook.py)                  *)
(*   - retry            (src/backend/utils/helpers.py)                     *)
(* Each component has its own specification (SessionSpec, OtpSpec,         *)
(* ProxySpec, ScannerSpec, MainSpec, DetectorSpec, ...) over the shared    *)
(* variables; the variables of the other components stay at their          *)
(* constructed values.                                                     *)
(***************************************************************************)
EXTENDS Integers, Sequences, FiniteSets, TLC

VARIABLES
    sessions,             \* SessionManager.sessions : country_code -> CountrySession
    login_lock,           \* SessionManager.login_lock.locked()
    now,                  \* wall clock (datetime.now / utcnow), in minutes
    otp_store,            \* OTPHandler._otp_store : storage key -> OTPRecord
    otp_result,           \* return value of the last OTPHandler call
    otp_calls,            \* per key: verify_otp outcomes since the last issuance
    proxies,              \* ProxyManager.proxies
    country_proxy_index,  \* ProxyManager.country_proxy_index
    used_proxies,         \* ProxyManager.used_proxies
    proxy_result,         \* return value of the last ProxyManager call
    proxy_trace,          \* per tenant: what the caller has seen since its last assign
    scanner_status,       \* AppointmentScanner.status
    scan_count,           \* AppointmentScanner.scan_count
    last_result,          \* AppointmentScanner.last_result
    stop_event,           \* AppointmentScanner._stop_event.is_set()
    pause_event,          \* AppointmentScanner._pause_event.is_set()
    pause_waiter,         \* future of the loop's pending _pause_event.wait()
    on_found_callback,    \* whether AppointmentScanner.on_found_callback is given
    callback_outcome,     \* how the last call of on_found_callback ended
    loop_pc,              \* where the start_scanning coroutine is suspended
    stop_phase,           \* 0: no stop() since the call of start_scanning,
                          \* 1: stop() called, 2: and the loop has resumed since
    is_scanning,          \* main.is_scanning
    browser_manager,      \* main.browser_manager
    scanner,              \* main.scanner
    run_pc,               \* where each run_scanner task is suspended
    starts,               \* number of accepted start_scan requests
    closed_by,            \* per BrowserManager: the task that called close() on it
    stop_seen,            \* per task: a stop_scan was accepted while it was alive
    last_screen,          \* ScreenDetector.last_screen
    screen_history,       \* ScreenDetector.screen_history
    detector_result,      \* the last ScreenDetector call and what it returned
    detect_returns,       \* every ScreenInfo detect has returned, in call order
    preferred_dates,      \* AvailabilityChecker.preferred_dates
    preferred_days,       \* AvailabilityChecker.preferred_days
    checker_last_result,  \* AvailabilityChecker.last_result
    check_result,         \* the last AvailabilityChecker call and what it returned
    channels,             \* Notifier.channels
    callbacks,            \* Notifier.callbacks
    notifier_history,     \* Notifier.history
    notify_result,        \* the last Notifier call and what it returned
    codes,                \* SMSOTPStore.codes
    sms_call,             \* the last SMSOTPStore call and what it returned
    sms_trace,            \* the entry the last get_latest_code returned, and the calls since
    login_pc,             \* per tenant: where its request_login call stands
    running,              \* the tenant whose request_login call is running
    waiting_order,        \* the tenants in the order they were marked WAITING_LOGIN
    login_order,          \* the tenants in the order they were marked LOGGING_IN
    retry_pc,             \* where the wrapper of retry(...) stands
    retry_frame,          \* the arguments of retry and the locals of the wrapper
    retry_log,            \* the invocations and sleeps of the wrapper call, in order
    retry_result          \* how the last wrapper call ended

vars == <<sessions, login_lock, now, otp_store, otp_result, otp_calls,
          proxies, country_proxy_index, used_proxies, proxy_result, proxy_trace,
          scanner_status, scan_count, last_result, stop_event, pause_event,
          pause_waiter, on_found_callback, callback_outcome, loop_pc, stop_phase,
          is_scanning, browser_manager, scanner, run_pc, starts, closed_by,
          stop_seen, last_screen, screen_history, detector_result, detect_returns,
          preferred_dates, preferred_days, checker_last_result, check_result,
          channels, callbacks, notifier_history, notify_result,
          codes, sms_call, sms_trace,
          login_pc, running, waiting_order, login_order,
          retry_pc, retry_frame, retry_log, retry_result>>

sessionVars == <<sessions, login_lock>>
otpVars     == <<otp_store, otp_result, otp_calls>>
proxyVars   == <<proxies, country_proxy_index, used_proxies, proxy_result, proxy_trace>>
scannerVars == <<scanner_status, scan_count, last_result, stop_event, pause_event,
                 pause_waiter, on_found_callback, callback_outcome, loop_pc, stop_phase>>

mainVars    == <<is_scanning, browser_manager, scanner, run_pc, starts, closed_by,
                 stop_seen>>

\* The variables of the three managers, and those of the other components.
managerVars == <<sessionVars, now, otpVars, proxyVars>>

detectorVars == <<last_screen, screen_history, detector_result, detect_returns>>

checkerVars == <<preferred_dates, preferred_days, checker_last_result, check_result>>

notifierVars == <<channels, callbacks, notifier_history, notify_result>>

smsVars == <<codes, sms_call, sms_trace>>

retryVars == <<retry_pc, retry_frame, retry_log, retry_result>>

loginVars == <<login_pc, running, waiting_order, login_order>>

\* The variables of the components around the scan loop.
toolVars == <<detectorVars, checkerVars, notifierVars, smsVars, retryVars>>

\* The variables of the components around the scan loop and the positions of
\* the request_login calls.
sideVars == <<toolVars, loginVars>>

\* The variables of the managers, of the scan loop and of main.py.
coreVars == <<managerVars, scannerVars, mainVars, loginVars>>

appVars == <<scannerVars, mainVars, sideVars>>

(***************************************************************************)
(* Python values                                                           *)
(***************************************************************************)
\* Optional[T]: None is the empty sequence, a value x is <<x>>.
None == <<>>

Some(x) == <<x>>

\* d[key] = value on a dict (the key is added when missing).
DictSet(d, key, value) ==
    [k \in (DOMAIN d) \cup {key} |-> IF k = key THEN value ELSE d[k]]

\* del d[key]
DictDel(d, key) == [k \in (DOMAIN d) \ {key} |-> d[k]]

EmptyDict == [k \in {} |-> None]

\* The fixed ordering of known tenant keys.
country_codes ==
    <<"fra", "dnk", "hrv", "cze", "nld", "lux", "bel", "swe", "ltu", "fin", "bgr">>

(***************************************************************************)
(* Bounds                                                                  *)
(***************************************************************************)
NumTenants == 4

Tenants == {country_codes[i] : i \in 1..NumTenants}

(***************************************************************************)
(* SessionManager                                                          *)
(***************************************************************************)
ScanStatus ==
    {"idle", "checking", "waiting_login", "logging_in", "waiting_otp",
     "scanning", "paused", "error", "completed"}

\* SessionManager(max_parallel=3)
max_parallel == 3

\* Cap of total_checks and appointments_found in the model.
MaxCount == 1

CountrySession(country_code) ==
    [country_code        |-> country_code,
     status              |-> "idle",
     current_round       |-> 0,
     current_combination |-> 0,
     total_combinations  |-> 0,
     combinations        |-> <<>>,
     current_proxy       |-> None,
     start_time          |-> None,
     last_update         |-> None,
     error_message       |-> None,
     appointments_found  |-> 0,
     total_checks        |-> 0]

\* get_session creates the session lazily; this is the dict after the call.
get_session(ss, country_code) ==
    IF country_code \in DOMAIN ss
    THEN ss
    ELSE DictSet(ss, country_code, CountrySession(country_code))

active_statuses ==
    {"checking", "waiting_login", "logging_in", "waiting_otp", "scanning"}

get_active_count(ss) ==
    Cardinality({c \in DOMAIN ss : ss[c].status \in active_statuses})

can_start_scan(ss) == get_active_count(ss) < max_parallel

\* request_login: the session is marked WAITING_LOGIN, then the body of
\* `async with self.login_lock` runs.  asyncio.Lock.acquire does not suspend
\* when the lock is free, the body holds no await, and leaving the block
\* releases the lock, so the call is one step of the event loop: it needs
\* the lock free and leaves it free.
request_login(country_code) ==
    /\ login_lock = FALSE
    /\ LET ss      == get_session(sessions, country_code)
           waiting == [ss[country_code] EXCEPT !.status = "waiting_login",
                                               !.last_update = Some(now)]
           inside  == [waiting EXCEPT !.status = "logging_in",
                                      !.last_update = Some(now)]
       IN  sessions' = DictSet(ss, country_code, inside)
    /\ login_lock' = FALSE
    /\ UNCHANGED <<appVars, now, otpVars, proxyVars>>

\* The variant of release_login that sends the tenant back to IDLE.
release_login_idling(country_code) ==
    /\ LET ss == get_session(sessions, country_code)
           s  == ss[country_code]
       IN  sessions' =
             IF s.status = "logging_in"
             THEN DictSet(ss, country_code,
                          [s EXCEPT !.status = "idle",
                                    !.last_update = Some(now)])
             ELSE ss
    /\ UNCHANGED <<appVars, login_lock, now, otpVars, proxyVars>>

release_login(country_code) ==
    /\ LET ss == get_session(sessions, country_code)
           s  == ss[country_code]
       IN  sessions' =
             IF s.status = "logging_in"
             THEN DictSet(ss, country_code,
                          [s EXCEPT !.status = "scanning",
                                    !.last_update = Some(now)])
             ELSE ss
    /\ UNCHANGED <<appVars, login_lock, now, otpVars, proxyVars>>

update_session_status(country_code, status, error) ==
    /\ LET ss == get_session(sessions, country_code)
           s  == [ss[country_code] EXCEPT !.status = status,
                                          !.last_update = Some(now)]
       IN  sessions' =
             DictSet(ss, country_code,
                     IF error # None THEN [s EXCEPT !.error_message = error]
                                     ELSE s)
    /\ UNCHANGED <<appVars, login_lock, now, otpVars, proxyVars>>

\* Lines 115-121.  The counter is capped at MaxCount to keep the model finite.
update_scan_progress(country_code, round_num, combination_num, total_combinations) ==
    /\ LET ss == get_session(sessions, country_code)
       IN  /\ ss[country_code].total_checks < MaxCount
           /\ sessions' =
                 DictSet(ss, country_code,
                         [ss[country_code] EXCEPT
                             !.current_round = round_num,
                             !.current_combination = combination_num,
                             !.total_combinations = total_combinations,
                             !.total_checks = @ + 1,
                             !.last_update = Some(now)])
    /\ UNCHANGED <<appVars, login_lock, now, otpVars, proxyVars>>

\* Lines 123-126.
set_combinations(country_code, combinations) ==
    /\ LET ss == get_session(sessions, country_code)
       IN  sessions' =
             DictSet(ss, country_code,
                     [ss[country_code] EXCEPT
                         !.combinations = combinations,
                         !.total_combinations = Len(combinations)])
    /\ UNCHANGED <<appVars, login_lock, now, otpVars, proxyVars>>

\* Lines 128-131.  The counter is capped at MaxCount to keep the model finite.
record_appointment_found(country_code) ==
    /\ LET ss == get_session(sessions, country_code)
       IN  /\ ss[country_code].appointments_found < MaxCount
           /\ sessions' =
                 DictSet(ss, country_code,
                         [ss[country_code] EXCEPT
                             !.appointments_found = @ + 1,
                             !.last_update = Some(now)])
    /\ UNCHANGED <<appVars, login_lock, now, otpVars, proxyVars>>

\* start_session that also starts the accumulated counters again from zero.
start_session_zeroing(country_code, proxy) ==
    /\ LET ss == get_session(sessions, country_code)
       IN  sessions' =
             DictSet(ss, country_code,
                     [ss[country_code] EXCEPT !.status = "checking",
                                              !.start_time = Some(now),
                                              !.last_update = Some(now),
                                              !.current_round = 0,
                                              !.current_combination = 0,
                                              !.error_message = None,
                                              !.current_proxy = proxy,
                                              !.appointments_found = 0,
                                              !.total_checks = 0])
    /\ UNCHANGED <<appVars, login_lock, now, otpVars, proxyVars>>

start_session(country_code, proxy) ==
    /\ LET ss == get_session(sessions, country_code)
       IN  sessions' =
             DictSet(ss, country_code,
                     [ss[country_code] EXCEPT !.status = "checking",
                                              !.start_time = Some(now),
                                              !.last_update = Some(now),
                                              !.current_round = 0,
                                              !.current_combination = 0,
                                              !.error_message = None,
                                              !.current_proxy = proxy])
    /\ UNCHANGED <<appVars, login_lock, now, otpVars, proxyVars>>

stop_session_fresh(country_code) ==
    /\ LET ss == get_session(sessions, country_code)
       IN  sessions' =
             DictSet(ss, country_code,
                     [CountrySession(country_code) EXCEPT !.status = "idle",
                                                          !.last_update = Some(now)])
    /\ UNCHANGED <<appVars, login_lock, now, otpVars, proxyVars>>

stop_session(country_code) ==
    /\ LET ss == get_session(sessions, country_code)
       IN  sessions' =
             DictSet(ss, country_code,
                     [ss[country_code] EXCEPT !.status = "idle",
                                              !.last_update = Some(now)])
    /\ UNCHANGED <<appVars, login_lock, now, otpVars, proxyVars>>

reset_session_all(country_code) ==
    /\ sessions' = IF country_code \in DOMAIN sessions
                   THEN EmptyDict
                   ELSE sessions
    /\ UNCHANGED <<appVars, login_lock, now, otpVars, proxyVars>>

reset_session(country_code) ==
    /\ sessions' = IF country_code \in DOMAIN sessions
                   THEN DictDel(sessions, country_code)
                   ELSE sessions
    /\ UNCHANGED <<appVars, login_lock, now, otpVars, proxyVars>>

SessionInit ==
    /\ sessions = EmptyDict
    /\ login_lock = FALSE

(***************************************************************************)
(* OTPHandler                                                              *)
(***************************************************************************)
\* Bounds of the OTP model: the clock is read every TickMinutes minutes and
\* stops at MaxTime; NumCodes codes exist.
MaxTime == 10

TickMinutes == 5

NumCodes == 2

\* OTPHandler.DEFAULT_EXPIRY_MINUTES
expiry_minutes == 5

\* OTPHandler.MAX_VERIFICATION_ATTEMPTS
max_attempts == 3

\* The codes _generate_otp can draw (otp_length digits each).
AllCodes == <<"000000", "123456", "654321", "999999">>

Codes == {AllCodes[i] : i \in 1..NumCodes}

\* (identifier, channel) pairs the handler is called with.
PhoneNumber == "+905551234567"

Email == "user@example.com"

OtpTargets == {<<PhoneNumber, "sms">>, <<Email, "email">>}

\* sha256(otp).hexdigest(): distinct codes have distinct digests.
_hash_otp(otp) == <<"sha256", otp>>

\* f"{channel.value}:{identifier}"; the channel prefix keeps keys of different
\* channels apart.
_get_storage_key(identifier, channel) == <<channel, ":", identifier>>

OtpKeys == {_get_storage_key(t[1], t[2]) : t \in OtpTargets}

OTPRecord(otp_hash, channel, created_at, expires_at) ==
    [otp_hash   |-> otp_hash,
     channel    |-> channel,
     created_at |-> created_at,
     expires_at |-> expires_at,
     attempts   |-> 0,
     verified   |-> FALSE]

\* The last OTPHandler call (method, storage key, candidate code) and the
\* dictionary it returned (fields a method does not return are None / FALSE),
\* with the number of times the call invoked send_callback.
OtpReturn(op, key) ==
    [op                 |-> op,
     key                |-> key,
     candidate          |-> "",
     verified           |-> FALSE,
     status             |-> "",
     remaining_attempts |-> None,
     exists             |-> FALSE,
     attempts_used      |-> None,
     is_expired         |-> FALSE,
     delivery_status    |-> "",
     callback_calls     |-> 0,
     fully_verified     |-> FALSE,
     sms_verification   |-> None,
     email_verification |-> None]

\* What the caller of a key has observed since the key's last issuance: the
\* code handed to the delivery callback, the time of issuance, how many
\* verify_otp calls returned verified and how many reported a wrong guess
\* (capped), and the outcome of the last verify_otp call.
NoCalls == [code |-> None, issued_at |-> None, verified_returns |-> 0,
            wrong_returns |-> 0, last_status |-> "", last_remaining |-> None]

\* _invalidate_otp
_invalidate_otp(store, storage_key) ==
    IF storage_key \in DOMAIN store THEN DictDel(store, storage_key) ELSE store

\* Outcome of send_callback(identifier, otp, channel): no callback supplied,
\* a callback that returns, a callback that raises.
Callbacks == {"none", "returns", "raises"}

\* generate_store that carries the attempt count and the verified flag of a
\* record it replaces over to the new record.
generate_store_carrying(store, identifier, channel, otp) ==
    LET storage_key == _get_storage_key(identifier, channel)
        record == OTPRecord(_hash_otp(otp), channel, now, now + expiry_minutes)
    IN  DictSet(store, storage_key,
                IF storage_key \in DOMAIN store
                THEN [record EXCEPT !.attempts = store[storage_key].attempts,
                                    !.verified = store[storage_key].verified]
                ELSE record)

\* The store and return value of generate_and_send_otp on a given store.
generate_store(store, identifier, channel, otp) ==
    DictSet(store, _get_storage_key(identifier, channel),
            OTPRecord(_hash_otp(otp), channel, now, now + expiry_minutes))

\* generate_return with the delivery tried again after a failure.
generate_return_retrying(op, identifier, channel, send_callback) ==
    [OtpReturn(op, _get_storage_key(identifier, channel)) EXCEPT
        !.status = "generated",
        !.delivery_status =
            CASE send_callback = "none"    -> "pending"
              [] send_callback = "returns" -> "sent"
              [] send_callback = "raises"  -> "failed",
        !.callback_calls =
            CASE send_callback = "none"    -> 0
              [] send_callback = "returns" -> 1
              [] send_callback = "raises"  -> 2]

\* Lines 118-135: the callback is called once inside try/except, and
\* "failed: <message>" is reported as "failed".
generate_return(op, identifier, channel, send_callback) ==
    [OtpReturn(op, _get_storage_key(identifier, channel)) EXCEPT
        !.status = "generated",
        !.delivery_status =
            CASE send_callback = "none"    -> "pending"
              [] send_callback = "returns" -> "sent"
              [] send_callback = "raises"  -> "failed",
        !.callback_calls = IF send_callback = "none" THEN 0 ELSE 1]

generate_and_send_otp(identifier, channel, send_callback, otp) ==
    LET storage_key == _get_storage_key(identifier, channel) IN
    /\ otp_store' = generate_store(otp_store, identifier, channel, otp)
    /\ otp_result' = generate_return("generate_and_send_otp", identifier,
                                     channel, send_callback)
    /\ otp_calls' = [otp_calls EXCEPT ![storage_key] =
                        [NoCalls EXCEPT !.code = Some(otp), !.issued_at = Some(now)]]
    /\ UNCHANGED <<appVars, sessionVars, now, proxyVars>>

resend_otp(identifier, channel, send_callback, otp) ==
    LET storage_key == _get_storage_key(identifier, channel) IN
    /\ otp_store' = generate_store(_invalidate_otp(otp_store, storage_key),
                                   identifier, channel, otp)
    /\ otp_result' = generate_return("resend_otp", identifier, channel,
                                     send_callback)
    /\ otp_calls' = [otp_calls EXCEPT ![storage_key] =
                        [NoCalls EXCEPT !.code = Some(otp), !.issued_at = Some(now)]]
    /\ UNCHANGED <<appVars, sessionVars, now, proxyVars>>

\* verify_branch with the attempt cap tested one attempt too late.
verify_branch_late_cap(store, storage_key, otp) ==
    IF storage_key \notin DOMAIN store THEN "no_record"
    ELSE LET record == store[storage_key] IN
         IF record.verified THEN "already_used"
         ELSE IF now > record.expires_at THEN "expired"
         ELSE IF record.attempts > max_attempts THEN "max_attempts"
         ELSE IF _hash_otp(otp) = record.otp_hash THEN "match"
         ELSE "mismatch"

\* verify_branch that tests the attempt count before the expiry.
verify_branch_cap_first(store, storage_key, otp) ==
    IF storage_key \notin DOMAIN store THEN "no_record"
    ELSE LET record == store[storage_key] IN
         IF record.verified THEN "already_used"
         ELSE IF record.attempts >= max_attempts THEN "max_attempts"
         ELSE IF now > record.expires_at THEN "expired"
         ELSE IF _hash_otp(otp) = record.otp_hash THEN "match"
         ELSE "mismatch"

\* verify_otp: the branch the call takes, in the order the code tests them.
verify_branch(store, storage_key, otp) ==
    IF storage_key \notin DOMAIN store THEN "no_record"
    ELSE LET record == store[storage_key] IN
         IF record.verified THEN "already_used"
         ELSE IF now > record.expires_at THEN "expired"
         ELSE IF record.attempts >= max_attempts THEN "max_attempts"
         ELSE IF _hash_otp(otp) = record.otp_hash THEN "match"
         ELSE "mismatch"

\* verify_store that does not mark the record verified on a match.
verify_store_unflagged(store, storage_key, otp) ==
    LET branch == verify_branch(store, storage_key, otp) IN
    CASE branch \in {"no_record", "already_used"} -> store
      [] branch \in {"expired", "max_attempts"} ->
            _invalidate_otp(store, storage_key)
      [] branch \in {"match", "mismatch"} ->
            DictSet(store, storage_key,
                    [store[storage_key] EXCEPT !.attempts = @ + 1])

\* verify_store that removes the record with the wrong guess that uses up the
\* attempts.
verify_store_eager_purge(store, storage_key, otp) ==
    LET branch == verify_branch(store, storage_key, otp) IN
    CASE branch \in {"no_record", "already_used"} -> store
      [] branch \in {"expired", "max_attempts"} ->
            _invalidate_otp(store, storage_key)
      [] branch = "match" ->
            DictSet(store, storage_key,
                    [store[storage_key] EXCEPT !.attempts = @ + 1,
                                               !.verified = TRUE])
      [] branch = "mismatch" ->
            IF store[storage_key].attempts + 1 >= max_attempts
            THEN _invalidate_otp(store, storage_key)
            ELSE DictSet(store, storage_key,
                         [store[storage_key] EXCEPT !.attempts = @ + 1])

\* verify_store that reports an expired record without removing it.
verify_store_keeps_expired(store, storage_key, otp) ==
    LET branch == verify_branch(store, storage_key, otp) IN
    CASE branch \in {"no_record", "already_used", "expired"} -> store
      [] branch = "max_attempts" -> _invalidate_otp(store, storage_key)
      [] branch = "match" ->
            DictSet(store, storage_key,
                    [store[storage_key] EXCEPT !.attempts = @ + 1,
                                               !.verified = TRUE])
      [] branch = "mismatch" ->
            DictSet(store, storage_key,
                    [store[storage_key] EXCEPT !.attempts = @ + 1])

\* verify_store that removes the record on a match.
verify_store_destroys_verified(store, storage_key, otp) ==
    LET branch == verify_branch(store, storage_key, otp) IN
    CASE branch \in {"no_record", "already_used"} -> store
      [] branch \in {"expired", "max_attempts", "match"} ->
            _invalidate_otp(store, storage_key)
      [] branch = "mismatch" ->
            DictSet(store, storage_key,
                    [store[storage_key] EXCEPT !.attempts = @ + 1])

\* verify_store that counts an attempt only for a wrong guess.
verify_store_free_match(store, storage_key, otp) ==
    LET branch == verify_branch(store, storage_key, otp) IN
    CASE branch \in {"no_record", "already_used"} -> store
      [] branch \in {"expired", "max_attempts"} ->
            _invalidate_otp(store, storage_key)
      [] branch = "match" ->
            DictSet(store, storage_key,
                    [store[storage_key] EXCEPT !.verified = TRUE])
      [] branch = "mismatch" ->
            DictSet(store, storage_key,
                    [store[storage_key] EXCEPT !.attempts = @ + 1])

\* verify_otp: the store after the call.
verify_store(store, storage_key, otp) ==
    LET branch == verify_branch(store, storage_key, otp) IN
    CASE branch \in {"no_record", "already_used"} -> store
      [] branch \in {"expired", "max_attempts"} ->
            _invalidate_otp(store, storage_key)
      [] branch = "match" ->
            DictSet(store, storage_key,
                    [store[storage_key] EXCEPT !.attempts = @ + 1,
                                               !.verified = TRUE])
      [] branch = "mismatch" ->
            DictSet(store, storage_key,
                    [store[storage_key] EXCEPT !.attempts = @ + 1])

\* verify_return that reports the attempts left before the failed attempt is
\* counted.
verify_return_uncounted(store, storage_key, otp) ==
    LET branch == verify_branch(store, storage_key, otp)
        ret    == [OtpReturn("verify_otp", storage_key) EXCEPT !.candidate = otp]
    IN
    CASE branch \in {"no_record", "already_used"} ->
            [ret EXCEPT !.status = "invalid"]
      [] branch = "expired" -> [ret EXCEPT !.status = "expired"]
      [] branch = "max_attempts" -> [ret EXCEPT !.status = "max_attempts_exceeded"]
      [] branch = "match" -> [ret EXCEPT !.verified = TRUE, !.status = "verified"]
      [] branch = "mismatch" ->
            [ret EXCEPT !.status = "invalid",
                        !.remaining_attempts =
                            Some(max_attempts - store[storage_key].attempts)]

\* verify_otp: the returned dictionary.
verify_return(store, storage_key, otp) ==
    LET branch == verify_branch(store, storage_key, otp)
        ret    == [OtpReturn("verify_otp", storage_key) EXCEPT !.candidate = otp]
    IN
    CASE branch \in {"no_record", "already_used"} ->
            [ret EXCEPT !.status = "invalid"]
      [] branch = "expired" -> [ret EXCEPT !.status = "expired"]
      [] branch = "max_attempts" -> [ret EXCEPT !.status = "max_attempts_exceeded"]
      [] branch = "match" -> [ret EXCEPT !.verified = TRUE, !.status = "verified"]
      [] branch = "mismatch" ->
            [ret EXCEPT !.status = "invalid",
                        !.remaining_attempts =
                            Some(max_attempts - (store[storage_key].attempts + 1))]

\* What the caller of storage_key has observed, after a verify_otp call that
\* returned ret.
calls_after_verify(calls, storage_key, ret) ==
    [calls EXCEPT ![storage_key] =
        [@ EXCEPT
           !.verified_returns = IF ret.verified /\ @ < 2 THEN @ + 1 ELSE @,
           !.wrong_returns =
               IF ret.remaining_attempts # None /\ @ < max_attempts
               THEN @ + 1 ELSE @,
           !.last_status = ret.status,
           !.last_remaining = ret.remaining_attempts]]

verify_otp(identifier, channel, otp) ==
    LET storage_key == _get_storage_key(identifier, channel)
        ret         == verify_return(otp_store, storage_key, otp)
    IN
    /\ otp_store' = verify_store(otp_store, storage_key, otp)
    /\ otp_result' = ret
    /\ otp_calls' = calls_after_verify(otp_calls, storage_key, ret)
    /\ UNCHANGED <<appVars, sessionVars, now, proxyVars>>

\* verify_dual_channel that skips the email verification when the SMS code was
\* not verified.
verify_dual_channel_short_circuit(phone_number, sms_otp, email, email_otp) ==
    LET sms_key      == _get_storage_key(phone_number, "sms")
        email_key    == _get_storage_key(email, "email")
        sms_result   == verify_return(otp_store, sms_key, sms_otp)
        sms_store    == verify_store(otp_store, sms_key, sms_otp)
        sms_calls    == calls_after_verify(otp_calls, sms_key, sms_result)
        email_result == IF sms_result.verified
                        THEN verify_return(sms_store, email_key, email_otp)
                        ELSE [OtpReturn("verify_otp", email_key) EXCEPT
                                 !.candidate = email_otp, !.status = "invalid"]
    IN
    /\ otp_store' = IF sms_result.verified
                    THEN verify_store(sms_store, email_key, email_otp)
                    ELSE sms_store
    /\ otp_result' =
         [OtpReturn("verify_dual_channel", sms_key) EXCEPT
             !.fully_verified = sms_result.verified /\ email_result.verified,
             !.sms_verification = Some(sms_result),
             !.email_verification = Some(email_result)]
    /\ otp_calls' = IF sms_result.verified
                    THEN calls_after_verify(sms_calls, email_key, email_result)
                    ELSE sms_calls
    /\ UNCHANGED <<appVars, sessionVars, now, proxyVars>>

\* SMSEmailOTPCoordinator.verify_dual_channel (lines 345-373): verify_sms_otp,
\* then verify_email_otp, on the same OTPHandler.
verify_dual_channel(phone_number, sms_otp, email, email_otp) ==
    LET sms_key      == _get_storage_key(phone_number, "sms")
        email_key    == _get_storage_key(email, "email")
        sms_result   == verify_return(otp_store, sms_key, sms_otp)
        sms_store    == verify_store(otp_store, sms_key, sms_otp)
        sms_calls    == calls_after_verify(otp_calls, sms_key, sms_result)
        email_result == verify_return(sms_store, email_key, email_otp)
    IN
    /\ otp_store' = verify_store(sms_store, email_key, email_otp)
    /\ otp_result' =
         [OtpReturn("verify_dual_channel", sms_key) EXCEPT
             !.fully_verified = sms_result.verified /\ email_result.verified,
             !.sms_verification = Some(sms_result),
             !.email_verification = Some(email_result)]
    /\ otp_calls' = calls_after_verify(sms_calls, email_key, email_result)
    /\ UNCHANGED <<appVars, sessionVars, now, proxyVars>>

get_otp_status(identifier, channel) ==
    LET storage_key == _get_storage_key(identifier, channel)
        ret         == OtpReturn("get_otp_status", storage_key)
    IN
    /\ otp_result' =
         IF storage_key \notin DOMAIN otp_store
         THEN [ret EXCEPT !.status = "not_found"]
         ELSE LET record     == otp_store[storage_key]
                  is_expired == now > record.expires_at
              IN  [ret EXCEPT
                     !.exists = TRUE,
                     !.status = IF is_expired THEN "expired" ELSE "pending",
                     !.verified = record.verified,
                     !.attempts_used = Some(record.attempts),
                     !.remaining_attempts =
                         Some(IF max_attempts - record.attempts > 0
                              THEN max_attempts - record.attempts ELSE 0),
                     !.is_expired = is_expired]
    /\ UNCHANGED <<appVars, sessionVars, now, otp_store, otp_calls, proxyVars>>

\* Time passes between two calls.
Tick ==
    /\ now + TickMinutes <= MaxTime
    /\ now' = now + TickMinutes
    /\ UNCHANGED <<appVars, sessionVars, otpVars, proxyVars>>

OtpInit ==
    /\ otp_store = EmptyDict
    /\ otp_result = OtpReturn("none", <<>>)
    /\ otp_calls = [k \in OtpKeys |-> NoCalls]

(***************************************************************************)
(* ProxyManager                                                            *)
(***************************************************************************)
\* Bound of the proxy model: rotations recorded per tenant.
MaxHistory == 3

\* Tenants of the proxy model: a known key with a non-zero offset in
\* country_codes and a key that is not in the list.
ProxyTenants == {"cze", "tur"}

Proxy(host, port, username, password) ==
    [host |-> host, port |-> port, username |-> username, password |-> password]

\* Proxy.__str__ : f"{self.host}:{self.port}"
ProxyStr(proxy) == <<proxy.host, ":", proxy.port>>

\* int(): the decimal strings that occur as ports; any other text raises
\* ValueError.
IntOf == [s \in {"8001", "8002", "8003"} |->
             CASE s = "8001" -> 8001 [] s = "8002" -> 8002 [] s = "8003" -> 8003]

\* Lines of a response body, each given as line.split(":").
Line1 == <<"h1", "8001", "u1", "p1">>

Line2 == <<"h2", "8002", "u2", "p2">>

Line3 == <<"h3", "8003", "u3", "p3">>

LineShort == <<"h4", "8004">>

LineBadPort == <<"h5", "port", "u5", "p5">>

LineBlank == <<"">>

\* Responses of the bulk source: status code and body lines; status 0 stands
\* for a request that raises (timeout, connection error).
Responses ==
    {[status_code |-> 0,   text |-> <<>>],
     [status_code |-> 500, text |-> <<Line1>>],
     [status_code |-> 200, text |-> <<>>],
     [status_code |-> 200, text |-> <<Line1>>],
     [status_code |-> 200, text |-> <<Line1, Line2>>],
     [status_code |-> 200, text |-> <<Line1, Line2, Line3>>],
     [status_code |-> 200, text |-> <<Line3, Line2>>],
     [status_code |-> 200, text |-> <<LineShort>>],
     [status_code |-> 200, text |-> <<Line1, LineShort, LineBlank, Line2>>],
     [status_code |-> 200, text |-> <<Line1, LineBadPort, Line2>>]}

\* response.text.strip().split("\n"): an empty body is one empty line.
SplitLines(text) == IF text = <<>> THEN <<LineBlank>> ELSE text

\* The for loop of fetch_proxies over the lines still to read: the pool built
\* so far and whether int() raised.
RECURSIVE ParseLines(_, _)
ParseLines(lines, pool) ==
    IF lines = <<>> THEN [pool |-> pool, raised |-> FALSE]
    ELSE LET parts == Head(lines) IN
         IF parts = LineBlank THEN ParseLines(Tail(lines), pool)
         ELSE IF Len(parts) >= 4
              THEN IF parts[2] \in DOMAIN IntOf
                   THEN ParseLines(Tail(lines),
                                   Append(pool, Proxy(parts[1], IntOf[parts[2]],
                                                      parts[3], parts[4])))
                   ELSE [pool |-> pool, raised |-> TRUE]
              ELSE ParseLines(Tail(lines), pool)

\* fetch_proxies: self.proxies after the call.
fetch_pool(pool, response) ==
    IF response.status_code # 200 THEN pool
    ELSE ParseLines(SplitLines(response.text), <<>>).pool

\* fetch_proxies: the returned bool.
fetch_return(response) ==
    IF response.status_code # 200 THEN FALSE
    ELSE LET parsed == ParseLines(SplitLines(response.text), <<>>) IN
         IF parsed.raised THEN FALSE ELSE Len(parsed.pool) > 0

ProxyReturn(op, country_code) ==
    [op |-> op, country_code |-> country_code, proxy |-> None, ok |-> FALSE,
     raised |-> "", stats |-> None]

\* What the caller of a tenant has seen since its last assign: the identity
\* and index that get_proxy_for_country returned and the rotations since.
NoTrace == [assigned |-> None, base |-> None, rotations |-> 0]

fetch_proxies(response) ==
    /\ proxies' = fetch_pool(proxies, response)
    /\ proxy_result' = [ProxyReturn("fetch_proxies", "") EXCEPT
                           !.ok = fetch_return(response)]
    /\ proxy_trace' = IF proxies' = proxies THEN proxy_trace
                      ELSE [t \in ProxyTenants |-> NoTrace]
    /\ UNCHANGED <<appVars, sessionVars, now, otpVars, country_proxy_index, used_proxies>>

\* country_codes.index(country_code), or 0 on ValueError.
StartOffset(country_code) ==
    IF \E i \in 1..Len(country_codes) : country_codes[i] = country_code
    THEN (CHOOSE i \in 1..Len(country_codes) : country_codes[i] = country_code) - 1
    ELSE 0

\* assign_index that moves a tenant to the next identity on every call.
assign_index_advancing(pool, index, country_code) ==
    IF pool = <<>> THEN index
    ELSE IF country_code \in DOMAIN index
         THEN DictSet(index, country_code, (index[country_code] + 1) % Len(pool))
         ELSE DictSet(index, country_code, StartOffset(country_code) % Len(pool))

\* get_proxy_for_country: country_proxy_index after the call.
assign_index(pool, index, country_code) ==
    IF pool = <<>> \/ country_code \in DOMAIN index THEN index
    ELSE DictSet(index, country_code, StartOffset(country_code) % Len(pool))

\* assign_used that opens the history of a new tenant before looking at the
\* pool.
assign_used_eager(pool, index, used, country_code) ==
    IF country_code \in DOMAIN index THEN used
    ELSE DictSet(used, country_code, <<>>)

\* get_proxy_for_country: used_proxies after the call.
assign_used(pool, index, used, country_code) ==
    IF pool = <<>> \/ country_code \in DOMAIN index THEN used
    ELSE DictSet(used, country_code, <<>>)

\* get_proxy_for_country: what the call returns; self.proxies[index] raises
\* IndexError when the stored index is past the end of the pool (list
\* positions are 0-based in the code, 1-based here).
assign_return(op, pool, index, country_code) ==
    LET ret == ProxyReturn(op, country_code) IN
    IF pool = <<>> THEN ret
    ELSE LET i == assign_index(pool, index, country_code)[country_code] IN
         IF i < Len(pool) THEN [ret EXCEPT !.proxy = Some(pool[i + 1]), !.ok = TRUE]
         ELSE [ret EXCEPT !.raised = "IndexError"]

get_proxy_for_country(country_code) ==
    LET ret == assign_return("get_proxy_for_country", proxies,
                             country_proxy_index, country_code)
    IN
    /\ country_proxy_index' =
           assign_index(proxies, country_proxy_index, country_code)
    /\ used_proxies' =
           assign_used(proxies, country_proxy_index, used_proxies, country_code)
    /\ proxy_result' = ret
    /\ proxy_trace' = [proxy_trace EXCEPT ![country_code] =
           IF ret.ok
           THEN [assigned  |-> ret.proxy,
                 base      |-> Some(country_proxy_index'[country_code]),
                 rotations |-> 0]
           ELSE NoTrace]
    /\ UNCHANGED <<appVars, sessionVars, now, otpVars, proxies>>

\* next_index that wraps one position early and never reaches the last identity.
next_index_wraps_early(pool, current_index) ==
    IF current_index + 1 >= Len(pool) - 1 THEN 0 ELSE current_index + 1

\* rotate_proxy_for_country on a tenant that has an index: the next index.
next_index(pool, current_index) == (current_index + 1) % Len(pool)

rotate_proxy_for_country(country_code) ==
    IF proxies = <<>>
    THEN /\ proxy_result' = ProxyReturn("rotate_proxy_for_country", country_code)
         /\ proxy_trace' = [proxy_trace EXCEPT ![country_code] = NoTrace]
         /\ UNCHANGED <<appVars, sessionVars, now, otpVars, proxies, country_proxy_index,
                        used_proxies>>
    ELSE IF country_code \notin DOMAIN country_proxy_index
    THEN /\ country_proxy_index' =
                assign_index(proxies, country_proxy_index, country_code)
         /\ used_proxies' =
                assign_used(proxies, country_proxy_index, used_proxies, country_code)
         /\ proxy_result' = assign_return("rotate_proxy_for_country", proxies,
                                          country_proxy_index, country_code)
         /\ proxy_trace' = [proxy_trace EXCEPT ![country_code] = NoTrace]
         /\ UNCHANGED <<appVars, sessionVars, now, otpVars, proxies>>
    ELSE LET current_index == country_proxy_index[country_code] IN
         IF current_index >= Len(proxies)
         THEN /\ proxy_result' =
                    [ProxyReturn("rotate_proxy_for_country", country_code)
                        EXCEPT !.raised = "IndexError"]
              /\ proxy_trace' = [proxy_trace EXCEPT ![country_code] = NoTrace]
              /\ UNCHANGED <<appVars, sessionVars, now, otpVars, proxies,
                             country_proxy_index, used_proxies>>
         ELSE LET current_proxy == proxies[current_index + 1]
                  history == IF country_code \in DOMAIN used_proxies
                             THEN used_proxies[country_code] ELSE <<>>
                  next    == next_index(proxies, current_index)
              IN
              /\ Len(history) < MaxHistory
              /\ used_proxies' = DictSet(used_proxies, country_code,
                                         Append(history, ProxyStr(current_proxy)))
              /\ country_proxy_index' =
                     DictSet(country_proxy_index, country_code, next)
              /\ proxy_result' =
                     [ProxyReturn("rotate_proxy_for_country", country_code)
                         EXCEPT !.proxy = Some(proxies[next + 1]), !.ok = TRUE]
              /\ proxy_trace' = [proxy_trace EXCEPT ![country_code] =
                     [@ EXCEPT !.assigned = None,
                               !.rotations = IF @ < MaxHistory THEN @ + 1 ELSE @]]
              /\ UNCHANGED <<appVars, sessionVars, now, otpVars, proxies>>

reset_country_rotation(country_code) ==
    /\ country_proxy_index' =
         IF country_code \in DOMAIN country_proxy_index
         THEN DictDel(country_proxy_index, country_code) ELSE country_proxy_index
    /\ used_proxies' =
         IF country_code \in DOMAIN used_proxies
         THEN DictDel(used_proxies, country_code) ELSE used_proxies
    /\ proxy_result' = ProxyReturn("reset_country_rotation", country_code)
    /\ proxy_trace' = [proxy_trace EXCEPT ![country_code] = NoTrace]
    /\ UNCHANGED <<appVars, sessionVars, now, otpVars, proxies>>

reset_all_rotations ==
    /\ country_proxy_index' = EmptyDict
    /\ used_proxies' = EmptyDict
    /\ proxy_result' = ProxyReturn("reset_all_rotations", "")
    /\ proxy_trace' = [t \in ProxyTenants |-> NoTrace]
    /\ UNCHANGED <<appVars, sessionVars, now, otpVars, proxies>>

\* get_stats (lines 155-166): self.proxies[idx] is read for every tenant with
\* a stored index, and an index beyond the pool raises IndexError.
get_stats ==
    /\ proxy_result' =
           IF /\ proxies # <<>>
              /\ \E code \in DOMAIN country_proxy_index :
                     country_proxy_index[code] >= Len(proxies)
           THEN [ProxyReturn("get_stats", "") EXCEPT !.raised = "IndexError"]
           ELSE [ProxyReturn("get_stats", "") EXCEPT
                    !.ok = TRUE,
                    !.stats = Some(
                        [total_proxies |-> Len(proxies),
                         country_assignments |->
                             [code \in DOMAIN country_proxy_index |->
                                 [current_index |-> country_proxy_index[code],
                                  current_proxy |->
                                      IF proxies # <<>>
                                      THEN Some(ProxyStr(proxies[country_proxy_index[code] + 1]))
                                      ELSE None,
                                  used_count |->
                                      IF code \in DOMAIN used_proxies
                                      THEN Len(used_proxies[code]) ELSE 0]]])]
    /\ UNCHANGED <<proxies, country_proxy_index, used_proxies, proxy_trace>>
    /\ UNCHANGED <<appVars, sessionVars, now, otpVars>>

ProxyInit ==
    /\ proxies = <<>>
    /\ country_proxy_index = EmptyDict
    /\ used_proxies = EmptyDict
    /\ proxy_result = ProxyReturn("none", "")
    /\ proxy_trace = [t \in ProxyTenants |-> NoTrace]

(***************************************************************************)
(* AppointmentScanner (src/backend/scanner/appointment_scanner.py)         *)
(*                                                                         *)
(* start_scanning is a coroutine: it runs atomically from one await that   *)
(* suspends to the next, and stop(), pause() and resume() are plain        *)
(* methods that run between two such steps.  loop_pc names the await the   *)
(* coroutine is suspended at.                                              *)
(***************************************************************************)
MaxScans == 3

ScannerStatus == {"idle", "running", "paused", "stopped", "error", "found"}

\* ScanResult as far as the loop looks at it: the found flag.
ScanResult(found) == [found |-> found]

ScanOutcomes == {"found", "not_found", "raises"}

LoopPcs == {"unbuilt", "idle", "created", "pause_wait", "perform_scan", "safe_callback",
            "error_sleep", "wait_with_interrupt", "returned"}

\* asyncio.Event.set() resolves the future of a pending wait(); a later
\* clear() does not take that back.
wake(waiter) == IF waiter = "pending" THEN "resolved" ELSE waiter

\* The loop has resumed from an await after a stop().
resumed(phase) == IF phase = 1 THEN 2 ELSE phase

\* Lines 79-93 and 96: the scan of one iteration, or the exit of the loop when
\* the stop event is seen.
scan_or_exit(stopped) ==
    IF stopped
    THEN /\ scanner_status' = "stopped"
         /\ loop_pc' = "returned"
    ELSE /\ loop_pc' = "perform_scan"
         /\ UNCHANGED scanner_status

\* Lines 73-76 without the effects on status: the head of the loop, evaluated
\* with the given values of the two events.
loop_head(stopped, unpaused) ==
    IF stopped
    THEN /\ loop_pc' = "returned"
         /\ pause_waiter' = "none"
    ELSE IF unpaused
         THEN /\ loop_pc' = "perform_scan"
              /\ pause_waiter' = "none"
         ELSE /\ loop_pc' = "pause_wait"
              /\ pause_waiter' = "pending"

\* A caller invokes start_scanning(config); the coroutine has not run yet.
start_scanning_call ==
    /\ loop_pc \in {"idle", "returned"}
    /\ loop_pc' = "created"
    /\ stop_phase' = 0
    /\ UNCHANGED <<scanner_status, scan_count, last_result, stop_event,
                   pause_event, pause_waiter, on_found_callback, callback_outcome>>
    /\ UNCHANGED <<managerVars, mainVars, sideVars>>

\* Lines 70-76: the first step of the coroutine, up to its first await that
\* suspends.
start_scanning ==
    /\ loop_pc = "created"
    /\ stop_event' = FALSE
    /\ loop_head(FALSE, pause_event)
    /\ scanner_status' = "running"
    /\ UNCHANGED <<scan_count, last_result, pause_event, on_found_callback, callback_outcome,
                   stop_phase>>
    /\ UNCHANGED <<managerVars, mainVars, sideVars>>

\* Lines 74-77: _pause_event.wait() returns once its future was resolved.
pause_wait_done ==
    /\ loop_pc = "pause_wait"
    /\ pause_waiter = "resolved"
    /\ pause_waiter' = "none"
    /\ scan_or_exit(stop_event)
    /\ stop_phase' = resumed(stop_phase)
    /\ UNCHANGED <<scan_count, last_result, stop_event, pause_event,
                   on_found_callback, callback_outcome>>
    /\ UNCHANGED <<managerVars, mainVars, sideVars>>

\* Lines 79-93: _perform_scan returns a result or raises.
perform_scan_done(outcome) ==
    /\ loop_pc = "perform_scan"
    /\ IF outcome = "raises"
       THEN /\ loop_pc' = "error_sleep"
            /\ UNCHANGED <<last_result, scan_count, scanner_status>>
       ELSE /\ scan_count < MaxScans
            /\ last_result' = Some(ScanResult(outcome = "found"))
            /\ scan_count' = scan_count + 1
            /\ scanner_status' = IF outcome = "found" THEN "found" ELSE scanner_status
            /\ loop_pc' = IF outcome = "found" /\ on_found_callback
                          THEN "safe_callback" ELSE "wait_with_interrupt"
    /\ stop_phase' = resumed(stop_phase)
    /\ UNCHANGED <<stop_event, pause_event, pause_waiter, on_found_callback, callback_outcome>>
    /\ UNCHANGED <<managerVars, mainVars, sideVars>>

\* How a call of on_found_callback ends: it returns or raises an Exception.
CallbackOutcomes == {"returns", "raises"}

\* Lines 88-89, 177-184: the callback has run; _safe_callback catches the
\* Exception it raised and prints it, and the loop goes on to its wait.
safe_callback_done(outcome) ==
    /\ loop_pc = "safe_callback"
    /\ loop_pc' = "wait_with_interrupt"
    /\ stop_phase' = resumed(stop_phase)
    /\ UNCHANGED <<scanner_status, scan_count, last_result, stop_event,
                   pause_event, pause_waiter, on_found_callback>>
    /\ callback_outcome' = outcome
    /\ UNCHANGED <<managerVars, mainVars, sideVars>>

\* Lines 90-92: the sleep after a failed scan is over.
error_sleep_done ==
    /\ loop_pc = "error_sleep"
    /\ loop_pc' = "wait_with_interrupt"
    /\ stop_phase' = resumed(stop_phase)
    /\ UNCHANGED <<scanner_status, scan_count, last_result, stop_event,
                   pause_event, pause_waiter, on_found_callback, callback_outcome>>
    /\ UNCHANGED <<managerVars, mainVars, sideVars>>

\* Lines 94-96, 171-175 and back to 73-76: the wait between two scans ends, on
\* the stop event or on its timeout, and the loop condition is evaluated.
wait_with_interrupt_done ==
    /\ loop_pc = "wait_with_interrupt"
    /\ loop_head(stop_event, pause_event)
    /\ scanner_status' = IF stop_event THEN "stopped" ELSE scanner_status
    /\ stop_phase' = resumed(stop_phase)
    /\ UNCHANGED <<scan_count, last_result, stop_event, pause_event,
                   on_found_callback, callback_outcome>>
    /\ UNCHANGED <<managerVars, mainVars, sideVars>>

\* Lines 186-189.
stop ==
    /\ loop_pc # "unbuilt"
    /\ stop_event' = TRUE
    /\ pause_event' = TRUE
    /\ pause_waiter' = wake(pause_waiter)
    /\ scanner_status' = "stopped"
    /\ stop_phase' = IF loop_pc \in {"idle", "returned"} THEN stop_phase ELSE 1
    /\ UNCHANGED <<scan_count, last_result, on_found_callback, callback_outcome, loop_pc>>
    /\ UNCHANGED <<managerVars, mainVars, sideVars>>

\* Lines 191-193.
pause ==
    /\ loop_pc # "unbuilt"
    /\ pause_event' = FALSE
    /\ scanner_status' = "paused"
    /\ UNCHANGED <<scan_count, last_result, stop_event, pause_waiter,
                   on_found_callback, callback_outcome, loop_pc, stop_phase>>
    /\ UNCHANGED <<managerVars, mainVars, sideVars>>

\* Lines 195-197.
resume ==
    /\ loop_pc # "unbuilt"
    /\ pause_event' = TRUE
    /\ pause_waiter' = wake(pause_waiter)
    /\ scanner_status' = "running"
    /\ UNCHANGED <<scan_count, last_result, stop_event, on_found_callback, callback_outcome,
                   loop_pc, stop_phase>>
    /\ UNCHANGED <<managerVars, mainVars, sideVars>>

\* Lines 55-68: the constructor, with or without a callback.
AppointmentScanner(callback) ==
    /\ loop_pc = "unbuilt"
    /\ scanner_status' = "idle"
    /\ scan_count' = 0
    /\ last_result' = None
    /\ stop_event' = FALSE
    /\ pause_event' = TRUE
    /\ pause_waiter' = "none"
    /\ on_found_callback' = callback
    /\ callback_outcome' = "none"
    /\ loop_pc' = "idle"
    /\ stop_phase' = 0
    /\ UNCHANGED <<managerVars, mainVars, sideVars>>

\* No scanner has been constructed yet.
ScannerInit ==
    /\ scanner_status = "idle"
    /\ scan_count = 0
    /\ last_result = None
    /\ stop_event = FALSE
    /\ pause_event = TRUE
    /\ pause_waiter = "none"
    /\ on_found_callback = FALSE
    /\ callback_outcome = "none"
    /\ loop_pc = "unbuilt"
    /\ stop_phase = 0

(***************************************************************************)
(* The scan endpoints of src/backend/main.py                               *)
(*                                                                         *)
(* start_scan and stop_scan are request handlers, run_scanner is the       *)
(* background task start_scan adds; all run on one event loop, atomically  *)
(* from one await to the next.  The n-th start_scan that is accepted       *)
(* creates BrowserManager n, AppointmentScanner n and run_scanner task n.  *)
(* The calls run_scanner awaits on its collaborators (browser start and    *)
(* close, login, availability check) are awaits that return or raise.      *)
(***************************************************************************)
MaxStarts == 3

Scans == 1..MaxStarts

CallOutcomes == {"returns", "raises"}

RunPcs == {"none", "queued", "setup", "checking", "sleeping", "except",
           "closing", "done"}

\* The tasks that are executing scan iterations (lines 121-131).
Iterating(pcs) == {t \in Scans : pcs[t] \in {"checking", "sleeping"}}

\* Lines 92-102.  The HTTPException of line 95 leaves the globals alone.
start_scan ==
    /\ starts < MaxStarts
    /\ IF is_scanning
       THEN UNCHANGED <<is_scanning, browser_manager, scanner, run_pc, starts>>
       ELSE /\ is_scanning' = TRUE
            /\ browser_manager' = Some(starts + 1)
            /\ scanner' = Some(starts + 1)
            /\ run_pc' = [run_pc EXCEPT ![starts + 1] = "queued"]
            /\ starts' = starts + 1
    /\ UNCHANGED <<closed_by, stop_seen>>
    /\ UNCHANGED <<managerVars, scannerVars, sideVars>>

\* Lines 141-148.  Every run_scanner task alive at this moment has been
\* stopped.
stop_scan ==
    /\ IF ~is_scanning
       THEN UNCHANGED <<is_scanning, stop_seen>>
       ELSE /\ is_scanning' = FALSE
            /\ stop_seen' = [t \in Scans |->
                               stop_seen[t] \/ run_pc[t] \notin {"none", "done"}]
    /\ UNCHANGED <<browser_manager, scanner, run_pc, starts, closed_by>>
    /\ UNCHANGED <<managerVars, scannerVars, sideVars>>

\* Lines 121-122: the loop condition, then an iteration or the finally block
\* of lines 134-138, which closes whatever browser_manager names now.
loop_or_finally(t) ==
    IF is_scanning
    THEN /\ run_pc' = [run_pc EXCEPT ![t] = "checking"]
         /\ UNCHANGED <<is_scanning, closed_by>>
    ELSE /\ is_scanning' = FALSE
         /\ IF browser_manager # None
            THEN /\ run_pc' = [run_pc EXCEPT ![t] = "closing"]
                 /\ closed_by' = [closed_by EXCEPT ![browser_manager[1]] = t]
            ELSE /\ run_pc' = [run_pc EXCEPT ![t] = "done"]
                 /\ UNCHANGED closed_by

\* Lines 134-138 entered from the except block.
finally(t) ==
    /\ is_scanning' = FALSE
    /\ IF browser_manager # None
       THEN /\ run_pc' = [run_pc EXCEPT ![t] = "closing"]
            /\ closed_by' = [closed_by EXCEPT ![browser_manager[1]] = t]
       ELSE /\ run_pc' = [run_pc EXCEPT ![t] = "done"]
            /\ UNCHANGED closed_by

\* Lines 105-108: the task starts and awaits browser_manager.start(); with
\* browser_manager None the attribute access raises.
run_scanner(t) ==
    /\ run_pc[t] = "queued"
    /\ run_pc' = [run_pc EXCEPT ![t] =
                     IF browser_manager = None THEN "except" ELSE "setup"]
    /\ UNCHANGED <<is_scanning, browser_manager, scanner, starts, closed_by,
                   stop_seen>>
    /\ UNCHANGED <<managerVars, scannerVars, sideVars>>

\* Lines 108-122: browser start, login and OTP are over.
setup_done(t, outcome) ==
    /\ run_pc[t] = "setup"
    /\ IF outcome = "raises"
       THEN /\ run_pc' = [run_pc EXCEPT ![t] = "except"]
            /\ UNCHANGED <<is_scanning, closed_by>>
       ELSE loop_or_finally(t)
    /\ UNCHANGED <<browser_manager, scanner, starts, stop_seen>>
    /\ UNCHANGED <<managerVars, scannerVars, sideVars>>

\* Lines 123-131: the check of one iteration is over.
check_done(t, outcome) ==
    /\ run_pc[t] = "checking"
    /\ run_pc' = [run_pc EXCEPT ![t] =
                     IF outcome = "raises" THEN "except" ELSE "sleeping"]
    /\ UNCHANGED <<is_scanning, browser_manager, scanner, starts, closed_by,
                   stop_seen>>
    /\ UNCHANGED <<managerVars, scannerVars, sideVars>>

\* Lines 131, 121-122: asyncio.sleep(check_interval) is over.
sleep_done(t) ==
    /\ run_pc[t] = "sleeping"
    /\ loop_or_finally(t)
    /\ UNCHANGED <<browser_manager, scanner, starts, stop_seen>>
    /\ UNCHANGED <<managerVars, scannerVars, sideVars>>

\* Lines 132-138: the error was broadcast.
except_done(t) ==
    /\ run_pc[t] = "except"
    /\ finally(t)
    /\ UNCHANGED <<browser_manager, scanner, starts, stop_seen>>
    /\ UNCHANGED <<managerVars, scannerVars, sideVars>>

\* Lines 137-138: browser_manager.close() is over; when it raised, line 138
\* is not reached.
close_done(t, outcome) ==
    /\ run_pc[t] = "closing"
    /\ run_pc' = [run_pc EXCEPT ![t] = "done"]
    /\ browser_manager' = IF outcome = "raises" THEN browser_manager ELSE None
    /\ UNCHANGED <<is_scanning, scanner, starts, closed_by, stop_seen>>
    /\ UNCHANGED <<managerVars, scannerVars, sideVars>>

\* Lines 24-29: the module globals.
MainInit ==
    /\ is_scanning = FALSE
    /\ browser_manager = None
    /\ scanner = None
    /\ run_pc = [t \in Scans |-> "none"]
    /\ starts = 0
    /\ closed_by = [b \in Scans |-> 0]
    /\ stop_seen = [t \in Scans |-> FALSE]

(***************************************************************************)
(* ScreenDetector (src/backend/scanner/screen_detector.py)                 *)
(***************************************************************************)
ScreenType ==
    {"unknown", "login", "otp_verification", "dashboard", "appointment_selection",
     "date_selection", "time_selection", "confirmation", "success", "error",
     "captcha", "maintenance", "blocked", "no_appointment"}

\* URL_PATTERNS and SCREEN_SELECTORS in the order of the dict literals, which
\* is the order .items() iterates in.
URL_PATTERNS ==
    <<[screen_type |-> "login",                 patterns |-> <<"/login", "/sign-in">>],
      [screen_type |-> "otp_verification",      patterns |-> <<"/otp", "/verify", "/2fa">>],
      [screen_type |-> "dashboard",             patterns |-> <<"/dashboard", "/home">>],
      [screen_type |-> "appointment_selection", patterns |-> <<"/appointment", "/book">>],
      [screen_type |-> "date_selection",        patterns |-> <<"/date", "/calendar">>],
      [screen_type |-> "confirmation",          patterns |-> <<"/confirm", "/review">>],
      [screen_type |-> "success",               patterns |-> <<"/success", "/complete">>]>>

\* SCREEN_SELECTORS with the error elements as the selectors of ERROR.
SCREEN_SELECTORS_with_error ==
    <<[screen_type |-> "error",
       selectors |-> <<".error-message", ".alert-danger", ".error">>],
      [screen_type |-> "login",
       selectors |-> <<"input[type='email']", "input[type='password']", "#login-form">>],
      [screen_type |-> "otp_verification",
       selectors |-> <<"input[name='otp']", ".otp-input", "input[maxlength='6']">>],
      [screen_type |-> "dashboard",
       selectors |-> <<".dashboard", ".user-profile", ".welcome-message">>],
      [screen_type |-> "date_selection",
       selectors |-> <<".calendar", ".date-picker", ".available-dates">>],
      [screen_type |-> "time_selection",
       selectors |-> <<".time-slots", ".slot-picker">>],
      [screen_type |-> "captcha",
       selectors |-> <<"iframe[src*='recaptcha']", ".g-recaptcha", "[data-sitekey]">>],
      [screen_type |-> "no_appointment",
       selectors |-> <<":text('no appointment')", ":text('müsait randevu')">>]>>

SCREEN_SELECTORS ==
    <<[screen_type |-> "login",
       selectors |-> <<"input[type='email']", "input[type='password']", "#login-form">>],
      [screen_type |-> "otp_verification",
       selectors |-> <<"input[name='otp']", ".otp-input", "input[maxlength='6']">>],
      [screen_type |-> "dashboard",
       selectors |-> <<".dashboard", ".user-profile", ".welcome-message">>],
      [screen_type |-> "date_selection",
       selectors |-> <<".calendar", ".date-picker", ".available-dates">>],
      [screen_type |-> "time_selection",
       selectors |-> <<".time-slots", ".slot-picker">>],
      [screen_type |-> "captcha",
       selectors |-> <<"iframe[src*='recaptcha']", ".g-recaptcha", "[data-sitekey]">>],
      [screen_type |-> "no_appointment",
       selectors |-> <<":text('no appointment')", ":text('müsait randevu')">>]>>

\* A URL is the sequence of its path segments.  Every pattern is a literal
\* that starts with its only "/", so re.search finds it in the URL exactly
\* when it occurs in one segment.  lower_segment is str.lower() on the
\* segments used here, occurs_in the patterns that occur in a lower-case
\* segment.
lower_segment(segment) ==
    CASE segment = "/Login"     -> "/login"
      [] segment = "/DASHBOARD" -> "/dashboard"
      [] OTHER                  -> segment

occurs_in(segment) ==
    CASE segment = "/login"            -> {"/login"}
      [] segment = "/dashboard"        -> {"/dashboard"}
      [] segment = "/appointment"      -> {"/appointment"}
      [] segment = "/dates"            -> {"/date"}
      [] segment = "/homepage"         -> {"/home"}
      [] segment = "/verify-email"     -> {"/verify"}
      [] segment = "/success"          -> {"/success"}
      [] OTHER                         -> {}

\* re.search(pattern, url_lower)
re_search(pattern, url) ==
    \E i \in 1..Len(url) : pattern \in occurs_in(lower_segment(url[i]))

\* page.query_selector(selector): the element is there, is not there, or the
\* query raises.
query_selector(page, selector) ==
    IF selector \in page.raising THEN "raises"
    ELSE IF selector \in page.present THEN "element" ELSE "none"

\* The two nested for loops of _detect_from_url (lines 107-111), from table
\* entry i and pattern j on.
RECURSIVE url_scan(_, _, _)
url_scan(url, i, j) ==
    IF i > Len(URL_PATTERNS) THEN "unknown"
    ELSE IF j > Len(URL_PATTERNS[i].patterns) THEN url_scan(url, i + 1, 1)
    ELSE IF re_search(URL_PATTERNS[i].patterns[j], url)
         THEN URL_PATTERNS[i].screen_type
         ELSE url_scan(url, i, j + 1)

_detect_from_url(url) == url_scan(url, 1, 1)

\* The two nested for loops of _detect_from_elements (lines 114-121); a query
\* that raises is skipped.
RECURSIVE element_scan(_, _, _)
element_scan(page, i, j) ==
    IF i > Len(SCREEN_SELECTORS) THEN "unknown"
    ELSE IF j > Len(SCREEN_SELECTORS[i].selectors) THEN element_scan(page, i + 1, 1)
    ELSE IF query_selector(page, SCREEN_SELECTORS[i].selectors[j]) = "element"
         THEN SCREEN_SELECTORS[i].screen_type
         ELSE element_scan(page, i, j + 1)

_detect_from_elements(page) == element_scan(page, 1, 1)

\* Lines 123-131.
_check_captcha(page) ==
    \E selector \in {"iframe[src*='recaptcha']", ".g-recaptcha", "[data-sitekey]"} :
        query_selector(page, selector) = "element"

\* str.strip() on the element texts used here.
strip(text) ==
    CASE text = " Session expired " -> "Session expired"
      [] OTHER                      -> text

error_selectors == <<".error-message", ".alert-danger", ".error">>

\* Lines 133-143: (has_error, error_message) of the first error element found.
RECURSIVE error_scan(_, _)
error_scan(page, i) ==
    IF i > Len(error_selectors) THEN <<FALSE, None>>
    ELSE IF query_selector(page, error_selectors[i]) = "element"
         THEN <<TRUE, IF page.error_text # None /\ page.error_text[1] # ""
                      THEN Some(strip(page.error_text[1])) ELSE None>>
         ELSE error_scan(page, i + 1)

_check_error(page) == error_scan(page, 1)

action_map_selectors ==
    <<[action |-> "login",       selector |-> "button[type='submit'], .login-btn"],
      [action |-> "continue",    selector |-> ".continue-btn, button:has-text('Devam')"],
      [action |-> "select_date", selector |-> ".available-date, td.available"],
      [action |-> "select_time", selector |-> ".time-slot"],
      [action |-> "confirm",     selector |-> ".confirm-btn, button:has-text('Onayla')"]>>

\* Lines 145-161: the actions whose element is there and visible, in table
\* order.
RECURSIVE actions_scan(_, _)
actions_scan(page, i) ==
    IF i > Len(action_map_selectors) THEN <<>>
    ELSE LET entry == action_map_selectors[i]
             rest  == actions_scan(page, i + 1)
         IN  IF /\ query_selector(page, entry.selector) = "element"
                /\ entry.selector \in page.visible
             THEN <<entry.action>> \o rest
             ELSE rest

_get_available_actions(page) == actions_scan(page, 1)

\* Lines 163-171.
_collect_metadata(page, screen_type) ==
    IF /\ screen_type = "date_selection"
       /\ ".available-date, td.available" \notin page.raising
    THEN [available_dates |-> page.dates]
    ELSE EmptyDict

ScreenInfo(screen_type, url, title, has_captcha, has_error, error_message, available_actions, metadata) ==
    [screen_type       |-> screen_type,
     url               |-> url,
     title             |-> title,
     has_captcha       |-> has_captcha,
     has_error         |-> has_error,
     error_message     |-> error_message,
     available_actions |-> available_actions,
     metadata          |-> metadata]

\* detect_info that probes the DOM first and reads the URL only when no
\* selector is present.
detect_info_elements_first(page) ==
    LET from_elements == _detect_from_elements(page)
        screen_type   == IF from_elements = "unknown" THEN _detect_from_url(page.url)
                         ELSE from_elements
        error         == _check_error(page)
    IN  ScreenInfo(screen_type, page.url, page.title[1], _check_captcha(page),
                   error[1], error[2], _get_available_actions(page),
                   _collect_metadata(page, screen_type))

\* Lines 75-96: the ScreenInfo detect builds for a page.
detect_info(page) ==
    LET from_url    == _detect_from_url(page.url)
        screen_type == IF from_url = "unknown" THEN _detect_from_elements(page)
                       ELSE from_url
        error       == _check_error(page)
    IN  ScreenInfo(screen_type, page.url, page.title[1], _check_captcha(page),
                   error[1], error[2], _get_available_actions(page),
                   _collect_metadata(page, screen_type))

\* The number of screen types screen_history keeps (lines 100-101).
history_limit == 50

\* The first n entries of a list: list[:n].
first_entries(list, n) ==
    IF Len(list) > n THEN SubSeq(list, 1, n) ELSE list

\* The last n entries of a list: list[-n:].
last_entries(list, n) ==
    IF Len(list) > n THEN SubSeq(list, Len(list) - n + 1, Len(list)) ELSE list

DetectorReturn(op, raised, screen_info, action) ==
    [op |-> op, raised |-> raised, screen_info |-> screen_info, action |-> action]

\* detect (lines 74-103).  page.title() of a page that is gone raises, and
\* detect raises with it before anything is stored.
detect(page) ==
    \/ /\ page.title = None
       /\ detector_result' = DetectorReturn("detect", TRUE, None, None)
       /\ UNCHANGED <<last_screen, screen_history, detect_returns>>
       /\ UNCHANGED <<coreVars, checkerVars, notifierVars, smsVars, retryVars>>
    \/ /\ page.title # None
       /\ LET screen_info == detect_info(page)
              appended    == Append(screen_history, screen_info.screen_type)
          IN  /\ last_screen' = Some(screen_info)
              /\ screen_history' = last_entries(appended, history_limit)
              /\ detector_result' =
                     DetectorReturn("detect", FALSE, Some(screen_info), None)
              /\ detect_returns' = Append(detect_returns, screen_info)
       /\ UNCHANGED <<coreVars, checkerVars, notifierVars, smsVars, retryVars>>

\* The dict literal of get_next_action (lines 175-184).
action_map ==
    [screen_type \in {"login", "otp_verification", "dashboard", "date_selection",
                      "time_selection", "confirmation", "captcha", "error"} |->
        CASE screen_type = "login"            -> "login"
          [] screen_type = "otp_verification" -> "enter_otp"
          [] screen_type = "dashboard"        -> "navigate_to_appointment"
          [] screen_type = "date_selection"   -> "select_date"
          [] screen_type = "time_selection"   -> "select_time"
          [] screen_type = "confirmation"     -> "confirm"
          [] screen_type = "captcha"          -> "solve_captcha"
          [] screen_type = "error"            -> "handle_error"]

\* get_next_action (lines 173-184): action_map.get(screen_info.screen_type).
get_next_action(screen_info) ==
    /\ detector_result' =
           DetectorReturn("get_next_action", FALSE, Some(screen_info),
                          IF screen_info.screen_type \in DOMAIN action_map
                          THEN Some(action_map[screen_info.screen_type])
                          ELSE None)
    /\ UNCHANGED <<last_screen, screen_history, detect_returns>>
    /\ UNCHANGED <<coreVars, checkerVars, notifierVars, smsVars, retryVars>>

\* is_error_state (lines 189-190).
is_error_state(screen_info) ==
    screen_info.screen_type \in {"error", "blocked", "maintenance"}

\* The pages the detector is shown.
Page(url, title, present, raising, visible, error_text, dates) ==
    [url |-> url, title |-> title, present |-> present, raising |-> raising,
     visible |-> visible, error_text |-> error_text, dates |-> dates]

Pages ==
    {Page(<<"/vfs", "/Login">>, Some("Login"),
          {"#login-form", "button[type='submit'], .login-btn"}, {},
          {"button[type='submit'], .login-btn"}, None, <<>>),
     Page(<<"/vfs", "/appointment", "/dates">>, Some("Book"),
          {".calendar", ".available-date, td.available"}, {},
          {".available-date, td.available"}, None, <<"12">>),
     Page(<<"/vfs", "/tur">>, Some("Takvim"),
          {".calendar", ".available-date, td.available", "[data-sitekey]"}, {},
          {}, None, <<"12", "19">>),
     Page(<<"/vfs", "/tur">>, Some("Kod"),
          {"#login-form", ".otp-input"}, {"#login-form"}, {}, None, <<>>),
     Page(<<"/vfs", "/tur">>, Some("Hata"),
          {".alert-danger"}, {".error-message"}, {}, Some(" Session expired "), <<>>),
     Page(<<"/vfs", "/success">>, Some("Tamam"), {}, {}, {}, None, <<>>),
     Page(<<"/vfs", "/tur">>, Some("Saat"),
          {".time-slots", ".g-recaptcha", ".time-slot"}, {}, {".time-slot"}, None, <<>>),
     Page(<<"/vfs", "/tur">>, Some("Randevu yok"),
          {":text('no appointment')"}, {}, {}, None, <<>>),
     Page(<<"/vfs", "/tur">>, None, {}, {}, {}, None, <<>>)}

\* A ScreenInfo of each screen type, as a caller of get_next_action may
\* build it.
screen_of(screen_type) ==
    ScreenInfo(screen_type, <<"/vfs">>, "VFS", FALSE, FALSE, None, <<>>, EmptyDict)

MaxDetects == 3

DetectorInit ==
    /\ last_screen = None
    /\ screen_history = <<>>
    /\ detector_result = DetectorReturn("none", FALSE, None, None)
    /\ detect_returns = <<>>

(***************************************************************************)
(* AvailabilityChecker (src/backend/scanner/availability_checker.py)       *)
(***************************************************************************)
\* The day names in ASCII spelling.
DAY_NAMES_TR ==
    [weekday \in 0..6 |->
        CASE weekday = 0 -> "Pazartesi"
          [] weekday = 1 -> "Sali"
          [] weekday = 2 -> "Carsamba"
          [] weekday = 3 -> "Persembe"
          [] weekday = 4 -> "Cuma"
          [] weekday = 5 -> "Cumartesi"
          [] weekday = 6 -> "Pazar"]

DateSlot(date, day_name, is_preferred) ==
    [date |-> date, day_name |-> day_name, slots |-> <<>>,
     is_preferred |-> is_preferred]

AvailabilityResult(has_availability, available_dates, location, category, error) ==
    [has_availability |-> has_availability, available_dates |-> available_dates,
     location |-> location, category |-> category, error |-> error]

\* The fields the format "%Y-%m-%d" reads from the date strings used here;
\* None for a string the format does not match.
date_fields(date_str) ==
    CASE date_str = "2024-01-05" -> Some(<<2024, 1, 5>>)
      [] date_str = "2024-01-06" -> Some(<<2024, 1, 6>>)
      [] date_str = "2024-01-08" -> Some(<<2024, 1, 8>>)
      [] date_str = "2024-02-02" -> Some(<<2024, 2, 2>>)
      [] date_str = "2024-02-30" -> Some(<<2024, 2, 30>>)
      [] OTHER                   -> None

is_leap(year) == year % 4 = 0 /\ (year % 100 # 0 \/ year % 400 = 0)

days_in_month(year, month) ==
    IF month = 2 THEN (IF is_leap(year) THEN 29 ELSE 28)
    ELSE IF month \in {4, 6, 9, 11} THEN 30 ELSE 31

RECURSIVE days_before_month(_, _)
days_before_month(year, month) ==
    IF month = 1 THEN 0
    ELSE days_before_month(year, month - 1) + days_in_month(year, month - 1)

\* date.toordinal(): day 1 is 0001-01-01.
toordinal(fields) ==
    LET y == fields[1] - 1
    IN  y * 365 + (y \div 4) - (y \div 100) + (y \div 400)
        + days_before_month(fields[1], fields[2]) + fields[3]

\* datetime.strptime(date_str, "%Y-%m-%d"): the date, or None where
\* strptime raises ValueError.
strptime(date_str) ==
    LET fields == date_fields(date_str)
    IN  IF /\ fields # None
           /\ fields[1][2] \in 1..12
           /\ fields[1][3] \in 1..days_in_month(fields[1][1], fields[1][2])
        THEN fields ELSE None

\* datetime.weekday(): Monday is 0.
weekday(fields) == (toordinal(fields) + 6) % 7

\* str.strip() and str.lower() on the texts of the pages used here.
strip_text(text) ==
    CASE text = " 2024-01-06 " -> "2024-01-06"
      [] OTHER                 -> text

lower_text(text) ==
    CASE text = "No Appointment available" -> "no appointment available"
      [] text = "Randevu takvimi"          -> "randevu takvimi"
      [] OTHER                             -> text

\* The entries of no_texts (line 80) that occur in a lower-case text.
no_texts_in(text) ==
    CASE text = "no appointment available" -> {"no appointment"}
      [] OTHER                             -> {}

\* _check_no_availability (lines 79-85); page.inner_text raising gives False.
_check_no_availability(page) ==
    /\ page.body # None
    /\ no_texts_in(lower_text(page.body[1])) # {}

\* The body of the for loop of _collect_available_dates (lines 92-105): the
\* slots one day element adds.
slot_of(day) ==
    IF day.raises THEN <<>>
    ELSE LET date_str == IF day.data_date # None /\ day.data_date[1] # ""
                         THEN day.data_date[1]
                         ELSE IF day.text # None /\ day.text[1] # ""
                              THEN strip_text(day.text[1]) ELSE ""
             dt       == strptime(date_str)
         IN  IF date_str = "" THEN <<>>
             ELSE <<DateSlot(date_str,
                             IF dt = None THEN "" ELSE DAY_NAMES_TR[weekday(dt[1])],
                             FALSE)>>

RECURSIVE slots_from(_, _)
slots_from(days, i) ==
    IF i > Len(days) THEN <<>> ELSE slot_of(days[i]) \o slots_from(days, i + 1)

\* _collect_available_dates (lines 87-108); query_selector_all raising gives
\* the empty list.
_collect_available_dates(page) ==
    IF page.days = None THEN <<>> ELSE slots_from(page.days[1], 1)

in_list(x, list) == \E i \in 1..Len(list) : list[i] = x

\* The variant of _is_preferred_date that accepts nothing when nothing is
\* configured.
_is_preferred_date_strict(dates, days, date_slot) ==
    IF dates # <<>> /\ in_list(date_slot.date, dates) THEN TRUE
    ELSE IF days # <<>> /\ in_list(date_slot.day_name, days) THEN TRUE
    ELSE FALSE

\* _is_preferred_date (lines 110-115).
_is_preferred_date(dates, days, date_slot) ==
    IF dates # <<>> /\ in_list(date_slot.date, dates) THEN TRUE
    ELSE IF days # <<>> /\ in_list(date_slot.day_name, days) THEN TRUE
    ELSE dates = <<>> /\ days = <<>>

\* Lines 65-66.
mark_preferred(available_dates) ==
    [i \in 1..Len(available_dates) |->
        [available_dates[i] EXCEPT !.is_preferred =
            _is_preferred_date(preferred_dates, preferred_days, available_dates[i])]]

\* The last AvailabilityChecker call: what it was shown and what it returned;
\* for check_multiple_months also the months it was asked for, the calendar
\* pages it ran check on, in order, and whether it raised.
CheckReturn(op, page, result) ==
    [op |-> op, page |-> page, result |-> result, months |-> 0,
     visited |-> <<>>, raised |-> FALSE]

\* check (lines 58-77).  The helpers swallow what the page raises, so the
\* except branch of check is not taken for any page.
check(page, location, category) ==
    \/ /\ _check_no_availability(page)
       /\ check_result' = CheckReturn("check", Some(page),
              Some(AvailabilityResult(FALSE, <<>>, location, category, None)))
       /\ UNCHANGED <<preferred_dates, preferred_days, checker_last_result>>
       /\ UNCHANGED <<coreVars, detectorVars, notifierVars, smsVars, retryVars>>
    \/ /\ ~_check_no_availability(page)
       /\ LET available_dates == mark_preferred(_collect_available_dates(page))
              result == AvailabilityResult(Len(available_dates) > 0, available_dates,
                                           location, category, None)
          IN  /\ checker_last_result' = Some(result)
              /\ check_result' = CheckReturn("check", Some(page), Some(result))
       /\ UNCHANGED <<preferred_dates, preferred_days>>
       /\ UNCHANGED <<coreVars, detectorVars, notifierVars, smsVars, retryVars>>

\* What check returns for a page, and whether it stores it as last_result
\* (lines 58-77).
check_returned(page, location, category) ==
    IF _check_no_availability(page)
    THEN AvailabilityResult(FALSE, <<>>, location, category, None)
    ELSE LET available_dates == mark_preferred(_collect_available_dates(page))
         IN  AvailabilityResult(Len(available_dates) > 0, available_dates,
                                location, category, None)

\* A browser page that shows a calendar of several months: the calendar page
\* of each month, and what the next-month control of each does: it is there
\* and a click shows the next month ("advances"), it is not there ("absent"),
\* page.query_selector raises ("query_raises"), click raises ("click_raises").
Calendar(months, next) == [months |-> months, next |-> next]

\* The for loop of check_multiple_months (lines 119-126) from iteration i on,
\* with the calendar showing month pos: the dates collected, the months
\* checked, last_result, and whether the loop was left by an exception.
RECURSIVE months_loop(_, _, _, _, _, _, _)
months_loop(calendar, months, i, pos, all_dates, visited, last) ==
    IF i >= months
    THEN [raised |-> FALSE, all_dates |-> all_dates, visited |-> visited,
          last |-> last]
    ELSE LET page    == calendar.months[pos]
             result  == check_returned(page, "", "")
             dates   == all_dates \o result.available_dates
             seen    == Append(visited, pos)
             stored  == IF _check_no_availability(page) THEN last ELSE Some(result)
             control == calendar.next[pos]
         IN  IF i < months - 1
             THEN IF control \in {"query_raises", "click_raises"}
                  THEN [raised |-> TRUE, all_dates |-> dates, visited |-> seen,
                        last |-> stored]
                  ELSE months_loop(calendar, months, i + 1,
                                   IF control = "advances" THEN pos + 1 ELSE pos,
                                   dates, seen, stored)
             ELSE months_loop(calendar, months, i + 1, pos, dates, seen, stored)

\* check_multiple_months (lines 117-127).  Neither query_selector nor click
\* is inside a try, so what they raise leaves the method.
check_multiple_months(calendar, months) ==
    LET run == months_loop(calendar, months, 0, 1, <<>>, <<>>, checker_last_result)
    IN  /\ checker_last_result' = run.last
        /\ check_result' =
               [CheckReturn("check_multiple_months", Some(calendar),
                            IF run.raised THEN None
                            ELSE Some(AvailabilityResult(Len(run.all_dates) > 0,
                                                         run.all_dates, "", "", None)))
                   EXCEPT !.months = months, !.visited = run.visited,
                          !.raised = run.raised]
        /\ UNCHANGED <<preferred_dates, preferred_days>>
        /\ UNCHANGED <<coreVars, detectorVars, notifierVars, smsVars, retryVars>>

\* AvailabilityChecker(preferred_dates, preferred_days) (lines 53-56): a new
\* checker replaces the one in use.
AvailabilityChecker(dates, days) ==
    /\ preferred_dates' = dates
    /\ preferred_days' = days
    /\ checker_last_result' = None
    /\ check_result' = CheckReturn("__init__", None, None)
    /\ UNCHANGED <<coreVars, detectorVars, notifierVars, smsVars, retryVars>>

\* The day elements and the calendar pages shown to the checker.
Day(data_date, text, raises) ==
    [data_date |-> data_date, text |-> text, raises |-> raises]

Days ==
    {Day(Some("2024-01-05"), Some("5"), FALSE),
     Day(None, Some(" 2024-01-06 "), FALSE),
     Day(Some(""), Some("12"), FALSE),
     Day(Some("2024-02-02"), None, FALSE),
     Day(Some("2024-02-30"), Some("30"), FALSE),
     Day(Some("2024-01-08"), Some("8"), FALSE),
     Day(None, None, FALSE),
     Day(None, None, TRUE)}

MaxDays == 2

DayLists == UNION {[1..n -> Days] : n \in 0..MaxDays}

CalendarPage(body, days) == [body |-> body, days |-> days]

CalendarPages ==
    {CalendarPage(Some("Randevu takvimi"), Some(days)) : days \in DayLists}
        \cup {CalendarPage(None, Some(days)) : days \in [1..1 -> Days]}
        \cup {CalendarPage(Some("No Appointment available"), Some(<<>>)),
              CalendarPage(Some("Randevu takvimi"), None)}

PreferredDates == {<<>>, <<"2024-01-06">>}
PreferredDays == {<<>>, <<"Friday">>, <<"Cuma">>}
Locations == {"", "Ankara"}

\* AvailabilityChecker() with both arguments left out.
CheckerInit ==
    /\ preferred_dates = <<>>
    /\ preferred_days = <<>>
    /\ checker_last_result = None
    /\ check_result = CheckReturn("__init__", None, None)

(***************************************************************************)
(* Notifier (src/backend/notifications/notifier.py)                        *)
(***************************************************************************)
\* The number of notifications Notifier.history keeps (line 60).
max_history == 100

Notification(type, title, message, priority, data, screenshot) ==
    [type |-> type, title |-> title, message |-> message, priority |-> priority,
     data |-> data, screenshot |-> screenshot]

\* A channel: what is_enabled() answers and how send() ends.
NotificationChannel(name, enabled, send) ==
    [name |-> name, enabled |-> enabled, send |-> send]

\* A callback: whether it is a coroutine function and how calling it ends.
Callback(name, coroutine, outcome) ==
    [name |-> name, coroutine |-> coroutine, outcome |-> outcome]

\* The variant of the channel loop without the try/except around send: the
\* first send that raises ends it.
RECURSIVE channel_loop_unguarded(_, _, _, _)
channel_loop_unguarded(chans, i, success, sent) ==
    IF i > Len(chans) THEN [success |-> success, sent |-> sent, raised |-> FALSE]
    ELSE IF ~chans[i].enabled THEN channel_loop_unguarded(chans, i + 1, success, sent)
    ELSE IF chans[i].send = "raises"
         THEN [success |-> success, sent |-> Append(sent, chans[i].name),
               raised |-> TRUE]
         ELSE channel_loop_unguarded(chans, i + 1,
                                     success \/ chans[i].send = "true",
                                     Append(sent, chans[i].name))

\* Lines 100-107: the loop over the channels from channel i on; sent lists the
\* channels whose send was called.
RECURSIVE channel_loop(_, _, _, _)
channel_loop(chans, i, success, sent) ==
    IF i > Len(chans) THEN [success |-> success, sent |-> sent, raised |-> FALSE]
    ELSE IF ~chans[i].enabled THEN channel_loop(chans, i + 1, success, sent)
    ELSE channel_loop(chans, i + 1,
                      success \/ chans[i].send = "true",
                      Append(sent, chans[i].name))

\* Lines 91-98: the loop over the callbacks from callback i on; called lists
\* the callbacks that were called.  Whatever a callback raises is passed over.
RECURSIVE callback_loop(_, _, _)
callback_loop(cbs, i, called) ==
    IF i > Len(cbs) THEN called
    ELSE callback_loop(cbs, i + 1, Append(called, cbs[i].name))

NotifyReturn(op, raised, success, called, sent) ==
    [op |-> op, raised |-> raised, success |-> success, called |-> called,
     sent |-> sent]

\* add_channel (lines 63-64).
add_channel(channel) ==
    /\ channels' = Append(channels, channel)
    /\ notify_result' = NotifyReturn("add_channel", FALSE, FALSE, <<>>, <<>>)
    /\ UNCHANGED <<callbacks, notifier_history>>
    /\ UNCHANGED <<coreVars, detectorVars, checkerVars, smsVars, retryVars>>

\* add_callback (lines 66-67).
add_callback(callback) ==
    /\ callbacks' = Append(callbacks, callback)
    /\ notify_result' = NotifyReturn("add_callback", FALSE, FALSE, <<>>, <<>>)
    /\ UNCHANGED <<channels, notifier_history>>
    /\ UNCHANGED <<coreVars, detectorVars, checkerVars, smsVars, retryVars>>

\* notify (lines 69-109).
notify(type, title, message, priority, data, screenshot) ==
    LET notification == Notification(type, title, message, priority,
                                     IF data = None THEN EmptyDict ELSE data[1],
                                     screenshot)
        called       == callback_loop(callbacks, 1, <<>>)
        delivery     == channel_loop(channels, 1, FALSE, <<>>)
    IN  /\ notifier_history' =
               last_entries(Append(notifier_history, notification), max_history)
        /\ notify_result' = NotifyReturn("notify", delivery.raised, delivery.success,
                                         called, delivery.sent)
        /\ UNCHANGED <<channels, callbacks>>
        /\ UNCHANGED <<coreVars, detectorVars, checkerVars, smsVars, retryVars>>

NotifierChannels ==
    {NotificationChannel("telegram", TRUE, "true"),
     NotificationChannel("email", TRUE, "false"),
     NotificationChannel("push", TRUE, "raises"),
     NotificationChannel("sms", FALSE, "true")}

NotifierCallbacks ==
    {Callback("log", FALSE, "returns"),
     Callback("broadcast", TRUE, "returns"),
     Callback("beep", FALSE, "raises"),
     Callback("webhook", TRUE, "raises")}

\* (type, title, message, priority) of the notifications sent.
NotifyArgs ==
    {<<"appointment_found", "RANDEVU BULUNDU!", "Ankara", 4>>,
     <<"error", "Hata", "navigation timeout", 3>>}

MaxChannels == 2
MaxCallbacks == 2
MaxNotifies == 2

\* Notifier() (lines 57-61).
NotifierInit ==
    /\ channels = <<>>
    /\ callbacks = <<>>
    /\ notifier_history = <<>>
    /\ notify_result = NotifyReturn("none", FALSE, FALSE, <<>>, <<>>)

(***************************************************************************)
(* SMSOTPStore (src/backend/auth/sms_webhook.py)                           *)
(***************************************************************************)
\* timedelta(seconds=300) of clear_old_codes, in minutes (line 51).
cutoff_minutes == 5

OTPCode(code, sender, received_at, used) ==
    [code |-> code, sender |-> sender, received_at |-> received_at, used |-> used]

\* extract_otp (lines 28-30): the first run of exactly six digits between
\* word boundaries in the messages used here.
extract_otp(message) ==
    CASE message = "VFS kodunuz: 123456"          -> Some("123456")
      [] message = "Your code is 654321 (123456)" -> Some("654321")
      [] message = "Arayin: 05551234567"          -> None
      [] message = "Kod 12345"                    -> None
      [] OTHER                                    -> None

\* list comprehension [c for c in list if keep(c)] for the two filters of
\* the store.
RECURSIVE live_codes(_, _)
live_codes(list, cutoff) ==
    IF list = <<>> THEN <<>>
    ELSE (IF Head(list).received_at > cutoff THEN <<Head(list)>> ELSE <<>>)
             \o live_codes(Tail(list), cutoff)

RECURSIVE unused_codes(_)
unused_codes(list) ==
    IF list = <<>> THEN <<>>
    ELSE (IF ~Head(list).used THEN <<Head(list)>> ELSE <<>>)
             \o unused_codes(Tail(list))

\* clear_old_codes (lines 50-52) at time t.
cleared(list, t) == live_codes(list, t - cutoff_minutes)

\* max(list, key=lambda x: x.received_at) on a non-empty list: the first
\* entry with the largest key.
RECURSIVE max_received(_, _)
max_received(list, best) ==
    IF list = <<>> THEN best
    ELSE max_received(Tail(list),
                      IF Head(list).received_at > best.received_at
                      THEN Head(list) ELSE best)

SmsReturn(op, code) == [op |-> op, code |-> code]

\* What happened to the store since the last get_latest_code: the entry that
\* call returned, and the calls made since.
SmsTrace(read, since) == [read |-> read, since |-> since]

\* add_sms (lines 32-38).
add_sms(sender, message) ==
    LET kept == cleared(codes, now)
        otp  == extract_otp(message)
    IN  /\ codes' = IF otp # None
                    THEN Append(kept, OTPCode(otp[1], sender, now, FALSE))
                    ELSE kept
        /\ sms_call' = SmsReturn("add_sms", otp)
        /\ sms_trace' = [sms_trace EXCEPT !.since = @ \cup {<<"add_sms", otp>>}]
        /\ UNCHANGED <<coreVars, detectorVars, checkerVars, notifierVars, retryVars>>

\* The variant of get_latest_code that consumes the code it returns.
get_latest_code_consuming ==
    LET kept   == cleared(codes, now)
        unused == unused_codes(kept)
        latest == max_received(Tail(unused), Head(unused))
    IN  /\ codes' = IF unused # <<>>
                    THEN [i \in 1..Len(kept) |->
                             IF kept[i] = latest
                             THEN [kept[i] EXCEPT !.used = TRUE] ELSE kept[i]]
                    ELSE kept
        /\ sms_call' = SmsReturn("get_latest_code",
                                   IF unused # <<>> THEN Some(latest.code) ELSE None)
        /\ sms_trace' = SmsTrace(IF unused # <<>> THEN Some(latest) ELSE None, {})
        /\ UNCHANGED <<coreVars, detectorVars, checkerVars, notifierVars, retryVars>>

\* get_latest_code (lines 40-43).
get_latest_code ==
    LET kept   == cleared(codes, now)
        unused == unused_codes(kept)
        latest == max_received(Tail(unused), Head(unused))
    IN  /\ codes' = kept
        /\ sms_call' = SmsReturn("get_latest_code",
                                   IF unused # <<>> THEN Some(latest.code) ELSE None)
        /\ sms_trace' = SmsTrace(IF unused # <<>> THEN Some(latest) ELSE None, {})
        /\ UNCHANGED <<coreVars, detectorVars, checkerVars, notifierVars, retryVars>>

\* mark_as_used (lines 45-48).
mark_as_used(code) ==
    /\ codes' = [i \in 1..Len(codes) |->
                    IF codes[i].code = code
                    THEN [codes[i] EXCEPT !.used = TRUE] ELSE codes[i]]
    /\ sms_call' = SmsReturn("mark_as_used", None)
    /\ sms_trace' = [sms_trace EXCEPT !.since = @ \cup {<<"mark_as_used", Some(code)>>}]
    /\ UNCHANGED <<coreVars, detectorVars, checkerVars, notifierVars, retryVars>>

\* clear_all (lines 54-55).
clear_all ==
    /\ codes' = <<>>
    /\ sms_call' = SmsReturn("clear_all", None)
    /\ sms_trace' = [sms_trace EXCEPT !.since = @ \cup {<<"clear_all", None>>}]
    /\ UNCHANGED <<coreVars, detectorVars, checkerVars, notifierVars, retryVars>>

\* A minute passes between two calls.
SmsTick ==
    /\ now' = now + 1
    /\ UNCHANGED <<appVars, sessionVars, otpVars, proxyVars>>

Messages ==
    {"VFS kodunuz: 123456", "Your code is 654321 (123456)",
     "Arayin: 05551234567", "Kod 12345"}

SmsCodes == {"123456", "654321"}

MaxCodes == 2
MaxSmsTime == 6

\* SMSOTPStore() (lines 25-26).
SmsInit ==
    /\ codes = <<>>
    /\ sms_call = SmsReturn("none", None)
    /\ sms_trace = SmsTrace(None, {})

(***************************************************************************)
(* SessionManager.request_login, one step per statement                    *)
(* (src/backend/core/session_manager.py, lines 92-100)                     *)
(***************************************************************************)
\* Where a request_login call stands: not called, WAITING_LOGIN marked,
\* suspended in login_lock.acquire(), lock taken, LOGGING_IN marked.
LoginPcs == {"idle", "marked", "waiting", "locked", "inside"}

\* Lines 93-95: the call begins and marks the session.  The event loop runs
\* one coroutine at a time: a call begins when none is running.
request_login_call(country_code) ==
    /\ running = None
    /\ login_pc[country_code] = "idle"
    /\ LET ss == get_session(sessions, country_code)
       IN  sessions' = DictSet(ss, country_code,
                               [ss[country_code] EXCEPT !.status = "waiting_login",
                                                        !.last_update = Some(now)])
    /\ login_pc' = [login_pc EXCEPT ![country_code] = "marked"]
    /\ running' = Some(country_code)
    /\ waiting_order' = Append(waiting_order, country_code)
    /\ UNCHANGED <<login_lock, login_order>>
    /\ UNCHANGED <<now, otpVars, proxyVars, scannerVars, mainVars, toolVars>>

\* The variant of entering `async with` that goes on without taking the lock.
request_login_acquire_skipping(country_code) ==
    /\ running = Some(country_code)
    /\ login_pc[country_code] = "marked"
    /\ login_pc' = [login_pc EXCEPT ![country_code] = "locked"]
    /\ UNCHANGED <<sessions, login_lock, running, waiting_order, login_order>>
    /\ UNCHANGED <<now, otpVars, proxyVars, scannerVars, mainVars, toolVars>>

\* Line 97, entering `async with self.login_lock`: asyncio.Lock.acquire takes
\* a free lock without suspending, and suspends the caller on a taken one.
request_login_acquire(country_code) ==
    /\ running = Some(country_code)
    /\ login_pc[country_code] = "marked"
    /\ IF login_lock
       THEN /\ login_pc' = [login_pc EXCEPT ![country_code] = "waiting"]
            /\ running' = None
            /\ UNCHANGED login_lock
       ELSE /\ login_lock' = TRUE
            /\ login_pc' = [login_pc EXCEPT ![country_code] = "locked"]
            /\ UNCHANGED running
    /\ UNCHANGED <<sessions, waiting_order, login_order>>
    /\ UNCHANGED <<now, otpVars, proxyVars, scannerVars, mainVars, toolVars>>

\* Lines 98-99: the body of the block.
request_login_enter(country_code) ==
    /\ running = Some(country_code)
    /\ login_pc[country_code] = "locked"
    /\ sessions' = DictSet(sessions, country_code,
                           [sessions[country_code] EXCEPT !.status = "logging_in",
                                                          !.last_update = Some(now)])
    /\ login_pc' = [login_pc EXCEPT ![country_code] = "inside"]
    /\ login_order' = Append(login_order, country_code)
    /\ UNCHANGED <<login_lock, running, waiting_order>>
    /\ UNCHANGED <<now, otpVars, proxyVars, scannerVars, mainVars, toolVars>>

\* The variant of leaving the block that keeps the lock until release_login.
request_login_return_holding(country_code) ==
    /\ running = Some(country_code)
    /\ login_pc[country_code] = "inside"
    /\ login_pc' = [login_pc EXCEPT ![country_code] = "idle"]
    /\ running' = None
    /\ UNCHANGED <<sessions, login_lock, waiting_order, login_order>>
    /\ UNCHANGED <<now, otpVars, proxyVars, scannerVars, mainVars, toolVars>>

\* Line 100: `return True` leaves the block, which releases the lock.
request_login_return(country_code) ==
    /\ running = Some(country_code)
    /\ login_pc[country_code] = "inside"
    /\ login_lock' = FALSE
    /\ login_pc' = [login_pc EXCEPT ![country_code] = "idle"]
    /\ running' = None
    /\ UNCHANGED <<sessions, waiting_order, login_order>>
    /\ UNCHANGED <<now, otpVars, proxyVars, scannerVars, mainVars, toolVars>>

MaxLogins == 3

LoginStepInit ==
    /\ login_pc = [c \in Tenants |-> "idle"]
    /\ running = None
    /\ waiting_order = <<>>
    /\ login_order = <<>>

(***************************************************************************)
(* retry (src/backend/utils/helpers.py)                                    *)
(***************************************************************************)
\* Bounds of the retry model: the largest max_attempts, and the calls of the
\* wrapper made one after another.
MaxRetryAttempts == 3

MaxRetryCalls == 2

\* The locals of wrapper (lines 21-22) for retry(max_attempts, delay, backoff);
\* calls counts the wrapper calls made so far.
RetryFrame(max_attempts_arg, delay, backoff, calls) ==
    [max_attempts   |-> max_attempts_arg,
     delay          |-> delay,
     backoff        |-> backoff,
     attempt        |-> 0,
     current_delay  |-> delay,
     last_exception |-> None,
     calls          |-> calls]

RetryResult(kind, value) == [kind |-> kind, value |-> value]

\* What one invocation of the wrapped function does when it ends: it returns
\* a value or raises an exception.
FuncOutcomes ==
    {RetryResult("returns", "ok"), RetryResult("raises", "TimeoutError"),
     RetryResult("raises", "ValueError")}

RetryArgs ==
    {RetryFrame(n, delay, backoff, 0) :
        n \in 1..MaxRetryAttempts, delay \in {0, 1}, backoff \in {1, 2}}

\* Line 29 with the test passing after every failure.
sleeps_before_retry_always(frame) == frame.attempt < frame.max_attempts

\* Line 29: if attempt < max_attempts - 1.
sleeps_before_retry(frame) == frame.attempt < frame.max_attempts - 1

\* The for statement of line 24 taking its next value, or the loop ending and
\* line 33 raising last_exception.
next_attempt(frame) ==
    /\ retry_frame' = [frame EXCEPT !.attempt = @ + 1]
    /\ IF frame.attempt + 1 < frame.max_attempts
       THEN /\ retry_pc' = "attempt"
            /\ UNCHANGED retry_result
       ELSE /\ retry_pc' = "raised"
            /\ retry_result' = RetryResult("raised", frame.last_exception)

\* A call of the wrapper that retry(max_attempts, delay, backoff) built
\* (lines 20-24): it enters the loop with attempt 0.
wrapper(args) ==
    /\ retry_pc \in {"idle", "returned", "raised"}
    /\ retry_frame.calls < MaxRetryCalls
    /\ retry_pc' = "attempt"
    /\ retry_frame' = [args EXCEPT !.calls = retry_frame.calls + 1]
    /\ retry_log' = <<>>
    /\ retry_result' = RetryResult("none", None)
    /\ UNCHANGED <<coreVars, detectorVars, checkerVars, notifierVars, smsVars>>

\* Lines 25-26: the invocation of func returns and the wrapper returns its
\* value.
func_returns(outcome) ==
    /\ retry_pc = "attempt"
    /\ outcome.kind = "returns"
    /\ retry_log' = Append(retry_log, outcome)
    /\ retry_pc' = "returned"
    /\ retry_result' = RetryResult("returned", Some(outcome.value))
    /\ UNCHANGED retry_frame
    /\ UNCHANGED <<coreVars, detectorVars, checkerVars, notifierVars, smsVars>>

\* Lines 27-30: the invocation of func raises; the exception is kept, and the
\* wrapper sleeps when another attempt follows.
func_raises(outcome) ==
    /\ retry_pc = "attempt"
    /\ outcome.kind = "raises"
    /\ retry_log' = Append(retry_log, outcome)
    /\ LET frame == [retry_frame EXCEPT !.last_exception = Some(outcome.value)]
       IN  IF sleeps_before_retry(frame)
           THEN /\ retry_pc' = "sleeping"
                /\ retry_frame' = frame
                /\ UNCHANGED retry_result
           ELSE next_attempt(frame)
    /\ UNCHANGED <<coreVars, detectorVars, checkerVars, notifierVars, smsVars>>

\* Lines 30-31: asyncio.sleep(current_delay) is over and the delay is
\* multiplied by backoff.
backoff_sleep_done ==
    /\ retry_pc = "sleeping"
    /\ retry_log' = Append(retry_log, RetryResult("sleeps", retry_frame.current_delay))
    /\ next_attempt([retry_frame EXCEPT !.current_delay = @ * retry_frame.backoff])
    /\ UNCHANGED <<coreVars, detectorVars, checkerVars, notifierVars, smsVars>>

\* No wrapper call has been made.
RetryInit ==
    /\ retry_pc = "idle"
    /\ retry_frame = RetryFrame(1, 0, 1, 0)
    /\ retry_log = <<>>
    /\ retry_result = RetryResult("none", None)

(***************************************************************************)
(* Specifications                                                          *)
(***************************************************************************)
Init ==
    /\ SessionInit
    /\ now = 0
    /\ OtpInit
    /\ ProxyInit
    /\ ScannerInit
    /\ MainInit
    /\ DetectorInit
    /\ CheckerInit
    /\ NotifierInit
    /\ SmsInit
    /\ RetryInit
    /\ LoginStepInit

\* SessionManager under any interleaving of its status operations.
SessionNext ==
    \/ \E c \in Tenants : start_session(c, None)
    \/ \E c \in Tenants : stop_session(c)
    \/ \E c \in Tenants : reset_session(c)
    \/ \E c \in Tenants : request_login(c)
    \/ \E c \in Tenants : release_login(c)
    \/ \E c \in Tenants : \E st \in ScanStatus : update_session_status(c, st, None)

SessionSpec == Init /\ [][SessionNext]_vars

\* OTPHandler under any sequence of calls and clock ticks.
OtpNext ==
    \/ \E t \in OtpTargets : \E cb \in Callbacks : \E otp \in Codes :
          generate_and_send_otp(t[1], t[2], cb, otp)
    \/ \E t \in OtpTargets : \E cb \in Callbacks : \E otp \in Codes :
          resend_otp(t[1], t[2], cb, otp)
    \/ \E t \in OtpTargets : \E otp \in Codes : verify_otp(t[1], t[2], otp)
    \/ \E t \in OtpTargets : get_otp_status(t[1], t[2])
    \/ \E sms_otp \in Codes : \E email_otp \in Codes :
          verify_dual_channel(PhoneNumber, sms_otp, Email, email_otp)
    \/ Tick

OtpSpec == Init /\ [][OtpNext]_vars

\* ProxyManager under any sequence of calls.
ProxyNext ==
    \/ \E r \in Responses : fetch_proxies(r)
    \/ \E c \in ProxyTenants : get_proxy_for_country(c)
    \/ \E c \in ProxyTenants : rotate_proxy_for_country(c)
    \/ \E c \in ProxyTenants : reset_country_rotation(c)
    \/ reset_all_rotations
    \/ get_stats

ProxySpec == Init /\ [][ProxyNext]_vars

\* request_login and release_login alone, called by any tenants in any order.
LoginNext ==
    \/ \E c \in Tenants : request_login(c)
    \/ \E c \in Tenants : release_login(c)

LoginSpec == Init /\ [][LoginNext]_vars

\* The workflow of a tenant reports a status only while the tenant is not in
\* COMPLETED or ERROR.
IsTerminal(ss, country_code) ==
    /\ country_code \in DOMAIN ss
    /\ ss[country_code].status \in {"completed", "error"}

TerminalNext ==
    \/ \E c \in Tenants : start_session(c, None)
    \/ \E c \in Tenants : stop_session(c)
    \/ \E c \in Tenants : reset_session(c)
    \/ \E c \in Tenants : request_login(c)
    \/ \E c \in Tenants : release_login(c)
    \/ \E c \in Tenants : \E st \in ScanStatus :
          ~IsTerminal(sessions, c) /\ update_session_status(c, st, None)

TerminalSpec == Init /\ [][TerminalNext]_vars

(***************************************************************************)
(* Claims                                                                  *)
(***************************************************************************)
LoggingIn(ss) == {c \in DOMAIN ss : ss[c].status = "logging_in"}

\* C1: the number of sessions in an active status (CHECKING, WAITING_LOGIN,
\* LOGGING_IN, WAITING_OTP, SCANNING) never exceeds max_parallel.
C1_AdmissionBudget == get_active_count(sessions) <= max_parallel

\* C2: at most one session has status LOGGING_IN at any time.
C2_LoginMutualExclusion == Cardinality(LoggingIn(sessions)) <= 1

\* C3: for a code issued and not reissued at most one verify_otp call returns
\* verified: the first call with the issued code, made before expiry after
\* fewer than max_attempts wrong guesses, returns VERIFIED, and every
\* verify_otp after a VERIFIED one returns verified = false, status INVALID.
C3_VerifiedOnce ==
    [][\A t \in OtpTargets : \A otp \in Codes :
          verify_otp(t[1], t[2], otp) =>
             LET k    == _get_storage_key(t[1], t[2])
                 seen == otp_calls[k]
             IN  /\ otp_calls'[k].verified_returns <= 1
                 /\ seen.verified_returns >= 1 =>
                       /\ ~otp_result'.verified
                       /\ otp_result'.status = "invalid"
                 /\ ( /\ seen.code = Some(otp)
                      /\ seen.verified_returns = 0
                      /\ seen.wrong_returns < max_attempts
                      /\ now <= seen.issued_at[1] + expiry_minutes )
                    => /\ otp_result'.verified
                       /\ otp_result'.status = "verified"]_vars

\* C3 witness: a verify_otp with the issued code has returned INVALID after an
\* earlier call on the same key returned VERIFIED.
C3_Witness ==
    \E k \in OtpKeys :
        /\ otp_calls[k].verified_returns = 1
        /\ otp_result.op = "verify_otp"
        /\ otp_result.key = k
        /\ Some(otp_result.candidate) = otp_calls[k].code
        /\ otp_result.status = "invalid"

\* A key on which max_attempts wrong guesses were reported since its issuance.
Exhausted(k) == otp_calls[k].wrong_returns >= max_attempts

\* C4 as stated: once max_attempts consecutive wrong verify_otp calls were
\* made, every later verify_otp for the key returns INVALID or
\* MAX_ATTEMPTS_EXCEEDED.
C4_Original ==
    \A k \in OtpKeys :
        Exhausted(k) =>
            otp_calls[k].last_status \in {"invalid", "max_attempts_exceeded"}

\* C4 amended: once max_attempts consecutive wrong verify_otp calls were made,
\* no later verify_otp for the key returns VERIFIED; each returns INVALID,
\* MAX_ATTEMPTS_EXCEEDED or, only when the expiry of the record has passed,
\* EXPIRED.
C4_NeverVerifiedAfterExhaustion ==
    \A k \in OtpKeys :
        Exhausted(k) =>
            /\ otp_calls[k].verified_returns = 0
            /\ otp_calls[k].last_status \in
                   {"invalid", "max_attempts_exceeded", "expired"}
            /\ otp_calls[k].last_status = "expired" =>
                   now > otp_calls[k].issued_at[1] + expiry_minutes

\* C4 witness: after max_attempts wrong guesses a verify_otp with the issued
\* code was refused.
C4_Witness ==
    \E k \in OtpKeys :
        /\ Exhausted(k)
        /\ otp_result.op = "verify_otp"
        /\ otp_result.key = k
        /\ Some(otp_result.candidate) = otp_calls[k].code
        /\ otp_result.status = "max_attempts_exceeded"

\* The last verify_otp call on k was the wrong guess that used up the attempts.
JustExhausted(k) ==
    /\ Exhausted(k)
    /\ otp_calls[k].last_status = "invalid"
    /\ otp_calls[k].last_remaining = Some(0)

\* C5 as stated: directly after the max_attempts-th consecutive wrong
\* verify_otp call the key is absent from the store.
C5_Original ==
    \A k \in OtpKeys : JustExhausted(k) => k \notin DOMAIN otp_store

\* C5 amended: the max_attempts-th consecutive wrong verify_otp call leaves the
\* record in the store with attempts = max_attempts (get_otp_status reports it
\* with no attempts remaining); the next verify_otp before expiry, whatever
\* the candidate, returns MAX_ATTEMPTS_EXCEEDED and removes the record; after
\* that the key is absent and verify_otp returns INVALID.
C5_PurgeOnNextCall ==
    [][/\ \A k \in OtpKeys :
             JustExhausted(k)' =>
                /\ k \in DOMAIN otp_store'
                /\ otp_store'[k].attempts = max_attempts
                /\ ~otp_store'[k].verified
       /\ \A t \in OtpTargets : \A otp \in Codes :
             verify_otp(t[1], t[2], otp) =>
                LET k == _get_storage_key(t[1], t[2]) IN
                /\ (JustExhausted(k) /\ now <= otp_calls[k].issued_at[1] + expiry_minutes)
                      => /\ otp_result'.status = "max_attempts_exceeded"
                         /\ k \notin DOMAIN otp_store'
                /\ otp_calls[k].last_status = "max_attempts_exceeded"
                      => /\ otp_result'.status = "invalid"
                         /\ ~otp_result'.verified
                         /\ k \notin DOMAIN otp_store'
       /\ \A t \in OtpTargets :
             get_otp_status(t[1], t[2]) =>
                LET k == _get_storage_key(t[1], t[2]) IN
                /\ JustExhausted(k) =>
                      /\ otp_result'.exists
                      /\ otp_result'.attempts_used = Some(max_attempts)
                      /\ otp_result'.remaining_attempts = Some(0)
                /\ otp_calls[k].last_status = "max_attempts_exceeded" =>
                      /\ ~otp_result'.exists
                      /\ otp_result'.status = "not_found"]_vars

\* C5 witness: the record was removed by the call after the last wrong guess,
\* and a verify_otp with the issued code then returned INVALID.
C5_Witness ==
    \E k \in OtpKeys :
        /\ Exhausted(k)
        /\ k \notin DOMAIN otp_store
        /\ otp_result.op = "verify_otp"
        /\ otp_result.key = k
        /\ Some(otp_result.candidate) = otp_calls[k].code
        /\ otp_result.status = "invalid"
        /\ otp_result.remaining_attempts = None

\* C6 as stated: for every record in the store, a verify_otp call after the
\* record's expires_at returns EXPIRED and removes the record.
C6_Original ==
    [][\A t \in OtpTargets : \A otp \in Codes :
          verify_otp(t[1], t[2], otp) =>
             LET k == _get_storage_key(t[1], t[2]) IN
             (k \in DOMAIN otp_store /\ now > otp_store[k].expires_at) =>
                 /\ otp_result'.status = "expired"
                 /\ k \notin DOMAIN otp_store']_vars

\* C6 amended: for every record in the store that has not been verified, a
\* verify_otp call after the record's expires_at returns EXPIRED
\* (verified = false) whatever the candidate and removes the record, so that
\* later verify_otp (INVALID) and get_otp_status (not found) calls find no
\* record; on a verified record the call returns INVALID and the record stays.
C6_ExpiredUnverifiedPurged ==
    [][/\ \A t \in OtpTargets : \A otp \in Codes :
             verify_otp(t[1], t[2], otp) =>
                LET k == _get_storage_key(t[1], t[2]) IN
                /\ ( /\ k \in DOMAIN otp_store
                     /\ ~otp_store[k].verified
                     /\ now > otp_store[k].expires_at )
                   => /\ otp_result'.status = "expired"
                      /\ ~otp_result'.verified
                      /\ k \notin DOMAIN otp_store'
                /\ ( /\ k \in DOMAIN otp_store
                     /\ otp_store[k].verified
                     /\ now > otp_store[k].expires_at )
                   => /\ otp_result'.status = "invalid"
                      /\ otp_store' = otp_store
                /\ otp_calls[k].last_status = "expired" =>
                      /\ k \notin DOMAIN otp_store
                      /\ otp_result'.status = "invalid"
                      /\ ~otp_result'.verified
       /\ \A t \in OtpTargets :
             get_otp_status(t[1], t[2]) =>
                (otp_calls[_get_storage_key(t[1], t[2])].last_status = "expired"
                    => ~otp_result'.exists /\ otp_result'.status = "not_found")
      ]_vars

\* C6 witness: a verify_otp carrying the issued code, made after the expiry of
\* an unverified record, returned EXPIRED and the record is gone.
C6_Witness ==
    \E k \in OtpKeys :
        /\ otp_result.op = "verify_otp"
        /\ otp_result.key = k
        /\ otp_result.status = "expired"
        /\ Some(otp_result.candidate) = otp_calls[k].code
        /\ now > otp_calls[k].issued_at[1] + expiry_minutes
        /\ k \notin DOMAIN otp_store

\* C7: fetch_proxies either returns true with the pool replaced, or returns
\* false and leaves the pool exactly as it was before the call.
C7_FetchAllOrNothing ==
    [][\A r \in Responses :
          fetch_proxies(r) => (proxy_result'.ok \/ proxies' = proxies)]_vars

C9_RotationCycle ==
    [][\A c \in ProxyTenants :
          (rotate_proxy_for_country(c) /\ proxy_trace[c].base # None) =>
              LET i == proxy_trace[c].base[1]
                  j == proxy_trace[c].rotations + 1
                  k == Len(proxies)
              IN  /\ proxy_result'.ok
                  /\ proxy_result'.proxy = Some(proxies[((i + j) % k) + 1])
                  /\ j = k => proxy_result'.proxy = Some(proxies[i + 1])]_vars

\* C9 witness: on a pool of 3 identities the third rotation after an assign
\* has returned the identity of the assign.
C9_Witness ==
    \E c \in ProxyTenants :
        /\ Len(proxies) = 3
        /\ proxy_trace[c].base # None
        /\ proxy_trace[c].rotations = 3
        /\ proxy_result.op = "rotate_proxy_for_country"
        /\ proxy_result.country_code = c
        /\ proxy_result.proxy = Some(proxies[proxy_trace[c].base[1] + 1])

\* C10: a tenant in COMPLETED or ERROR keeps that status under every operation
\* except reset_session, which removes its session.
C10_TerminalUntilReset ==
    [][\A c \in Tenants :
          IsTerminal(sessions, c) =>
              \/ c \notin DOMAIN sessions'
              \/ sessions'[c].status = sessions[c].status]_vars

(***************************************************************************)
(* AppointmentScanner: the scan loop and its controls                      *)
(***************************************************************************)
\* One AppointmentScanner, one start_scanning call at a time, and stop(),
\* pause() and resume() called at any moment between two steps of the loop.
ScannerNext ==
    \/ \E callback \in BOOLEAN : AppointmentScanner(callback)
    \/ start_scanning_call
    \/ start_scanning
    \/ pause_wait_done
    \/ \E outcome \in ScanOutcomes : perform_scan_done(outcome)
    \/ \E outcome \in CallbackOutcomes : safe_callback_done(outcome)
    \/ error_sleep_done
    \/ wait_with_interrupt_done
    \/ stop
    \/ pause
    \/ resume

ScannerSpec == Init /\ [][ScannerNext]_vars

\* A step of the loop that begins a scan (the call of _perform_scan, line 80).
ScanBegins == loop_pc # "perform_scan" /\ loop_pc' = "perform_scan"

\* C11: once stop() was called after start_scanning was invoked and the loop
\* has resumed from an await since, the loop begins no scan any more; and when
\* start_scanning returns, the status is STOPPED.
C11_StopEndsLoop ==
    [][/\ ScanBegins => stop_phase # 2
       /\ (loop_pc # "returned" /\ loop_pc' = "returned") =>
              scanner_status' = "stopped"]_vars

\* C13: no scan begins while the scanner is paused (the pause event is clear:
\* pause() was called and neither resume() nor stop() since); pause() and
\* resume() leave scan_count and last_result alone, and scan_count only ever
\* moves on by one.
C13_PausedNoScan ==
    [][/\ ScanBegins => pause_event
       /\ (pause \/ resume) => (scan_count' = scan_count /\ last_result' = last_result)
       /\ scan_count' \in {scan_count, scan_count + 1}]_vars

(***************************************************************************)
(* main.py: start_scan, stop_scan and the run_scanner tasks                *)
(***************************************************************************)
MainNext ==
    \/ start_scan
    \/ stop_scan
    \/ \E t \in Scans : run_scanner(t)
    \/ \E t \in Scans : \E outcome \in CallOutcomes : setup_done(t, outcome)
    \/ \E t \in Scans : \E outcome \in CallOutcomes : check_done(t, outcome)
    \/ \E t \in Scans : sleep_done(t)
    \/ \E t \in Scans : except_done(t)
    \/ \E t \in Scans : \E outcome \in CallOutcomes : close_done(t, outcome)

MainSpec == Init /\ [][MainNext]_vars

FrameTenants == {"fra", "nld"}

StatusReports == {<<"paused", None>>, <<"error", Some("navigation timeout")>>}

ProgressReports == {<<1, 2, 3>>}

CombinationLists == {<<"c1", "c2", "c3">>}

\* Any mutating operation of SessionManager called for one tenant.
session_operation(c) ==
    \/ start_session(c, None)
    \/ stop_session(c)
    \/ reset_session(c)
    \/ request_login(c)
    \/ release_login(c)
    \/ \E r \in StatusReports : update_session_status(c, r[1], r[2])
    \/ \E p \in ProgressReports : update_scan_progress(c, p[1], p[2], p[3])
    \/ \E l \in CombinationLists : set_combinations(c, l)
    \/ record_appointment_found(c)

ProgressNext == \E c \in FrameTenants : session_operation(c)

ProgressSpec == Init /\ [][ProgressNext]_vars

\* The session of a tenant as get_session would return it.
session_of(ss, country_code) == get_session(ss, country_code)[country_code]

active_contribution(ss, country_code) ==
    IF country_code \in DOMAIN ss /\ ss[country_code].status \in active_statuses
    THEN 1 ELSE 0

\* C15: an operation called for tenant a neither creates, removes nor changes
\* the session of any other tenant, and it moves the active count by exactly
\* what the change of a's own status contributes.
C15_OtherTenantsUntouched ==
    [][\A a \in FrameTenants :
          session_operation(a) =>
              /\ \A b \in FrameTenants \ {a} :
                    /\ b \in DOMAIN sessions' <=> b \in DOMAIN sessions
                    /\ b \in DOMAIN sessions => sessions'[b] = sessions[b]
              /\ get_active_count(sessions') - get_active_count(sessions) =
                    active_contribution(sessions', a) - active_contribution(sessions, a)]_vars

\* One tenant was taken to ERROR with a message while the other is scanning
\* with counters above zero.
C15_Witness ==
    \E a, b \in FrameTenants :
        /\ a \in DOMAIN sessions /\ b \in DOMAIN sessions
        /\ sessions[a].status = "error" /\ sessions[a].error_message # None
        /\ sessions[b].status = "scanning"
        /\ sessions[b].total_checks > 0 /\ sessions[b].appointments_found > 0

(***************************************************************************)
(* OTPHandler: issuance, success and independence of keys                  *)
(***************************************************************************)
\* C16: an issuance calls the delivery callback at most once (not at all when
\* none is given); when the callback raises, the call still returns status
\* "generated", with delivery_status reporting the failure, and has stored the
\* new record; and a verify_otp with the generated code that follows such an
\* issuance before the record expires returns VERIFIED.  (A step that leaves
\* the clock alone is a call; otp_result' names the call, its key and the
\* candidate code, otp_calls' the code handed to the callback.)
C16_DeliveryFailureStillIssues ==
    [][LET storage_key == otp_result'.key
           identifier  == storage_key[3]
           channel     == storage_key[1]
       IN
       /\ (now' = now /\ otp_result'.op = "generate_and_send_otp") =>
             \A cb \in Callbacks :
                 LET otp == otp_calls'[storage_key].code[1] IN
                 generate_and_send_otp(identifier, channel, cb, otp) =>
                     /\ otp_result'.callback_calls <= 1
                     /\ cb = "none" => otp_result'.callback_calls = 0
                     /\ cb = "raises" =>
                           /\ otp_result'.status = "generated"
                           /\ otp_result'.delivery_status = "failed"
                           /\ storage_key \in DOMAIN otp_store'
                           /\ otp_store'[storage_key] =
                                 OTPRecord(_hash_otp(otp), channel, now,
                                           now + expiry_minutes)
       /\ ( /\ now' = now
            /\ otp_result'.op = "verify_otp"
            /\ otp_result.op = "generate_and_send_otp"
            /\ otp_result.key = storage_key
            /\ otp_result.delivery_status = "failed"
            /\ otp_calls[storage_key].code = Some(otp_result'.candidate)
            /\ now <= otp_calls[storage_key].issued_at[1] + expiry_minutes )
          => otp_result'.verified /\ otp_result'.status = "verified"]_vars

\* An issuance whose callback raised has returned and its record is stored.
C16_Witness ==
    /\ otp_result.op = "generate_and_send_otp"
    /\ otp_result.delivery_status = "failed"
    /\ otp_result.callback_calls = 1
    /\ otp_result.key \in DOMAIN otp_store
    /\ otp_store[otp_result.key].attempts = 0

\* C17 as stated: after verify_otp returns VERIFIED the store holds no record
\* for the key, and get_otp_status reports the key as not found.
C17_Original ==
    [][\A t \in OtpTargets : \A otp \in Codes :
          LET storage_key == _get_storage_key(t[1], t[2]) IN
          /\ (verify_otp(t[1], t[2], otp) /\ otp_result'.status = "verified") =>
                storage_key \notin DOMAIN otp_store'
          /\ ( /\ get_otp_status(t[1], t[2])
               /\ otp_result.op = "verify_otp"
               /\ otp_result.key = storage_key
               /\ otp_result.status = "verified" )
             => otp_result'.status = "not_found"]_vars

\* C17: a record is kept on success and marked verified: after verify_otp
\* returns VERIFIED the store holds the record of the key with verified set,
\* it stays there until the key is issued again, get_otp_status reports it as
\* existing and verified, and every further verify_otp for the key returns
\* INVALID.
C17_VerifiedRecordKept ==
    [][\A t \in OtpTargets : \A otp \in Codes :
          LET storage_key == _get_storage_key(t[1], t[2])
              verified_before == otp_calls[storage_key].verified_returns > 0
          IN
          /\ (verify_otp(t[1], t[2], otp) /\ otp_result'.status = "verified") =>
                /\ storage_key \in DOMAIN otp_store'
                /\ otp_store'[storage_key].verified
          /\ verified_before =>
                /\ storage_key \in DOMAIN otp_store
                /\ otp_store[storage_key].verified
          /\ (verified_before /\ get_otp_status(t[1], t[2])) =>
                /\ otp_result'.exists
                /\ otp_result'.verified
                /\ otp_result'.status # "not_found"
          /\ (verified_before /\ verify_otp(t[1], t[2], otp)) =>
                /\ ~otp_result'.verified
                /\ otp_result'.status = "invalid"]_vars

\* get_otp_status has just reported a record that verify_otp had verified.
C17_Witness ==
    /\ otp_result.op = "get_otp_status"
    /\ otp_calls[otp_result.key].verified_returns > 0
    /\ otp_result.exists
    /\ otp_result.verified

\* The record stored under a key, None when there is none.
record_of(store, storage_key) ==
    IF storage_key \in DOMAIN store THEN Some(store[storage_key]) ELSE None

\* The OTPHandler methods that work on one (identifier, channel).
SingleKeyCalls == {"generate_and_send_otp", "resend_otp", "verify_otp",
                   "get_otp_status"}

\* C18: a call made for one key (issuing, reissuing, verifying with the purge
\* of an expired or exhausted record, status) leaves the record of every other
\* key as it is; verify_dual_channel returns for each channel what verify_otp
\* alone returns for that channel's record, leaves each record as verify_otp
\* alone leaves it, and reports fully_verified exactly when both results are
\* verified.  (A step that leaves the clock alone is a call, and otp_result'
\* names the call and its key.)
C18_KeysIndependent ==
    [][/\ (now' = now /\ otp_result'.op \in SingleKeyCalls) =>
             \A k \in OtpKeys \ {otp_result'.key} :
                 record_of(otp_store', k) = record_of(otp_store, k)
       /\ (now' = now /\ otp_result'.op = "verify_dual_channel") =>
             LET sms_key   == _get_storage_key(PhoneNumber, "sms")
                 email_key == _get_storage_key(Email, "email")
                 sms_otp   == otp_result'.sms_verification[1].candidate
                 email_otp == otp_result'.email_verification[1].candidate
             IN
             /\ otp_result'.sms_verification =
                   Some(verify_return(otp_store, sms_key, sms_otp))
             /\ otp_result'.email_verification =
                   Some(verify_return(otp_store, email_key, email_otp))
             /\ record_of(otp_store', sms_key) =
                   record_of(verify_store(otp_store, sms_key, sms_otp), sms_key)
             /\ record_of(otp_store', email_key) =
                   record_of(verify_store(otp_store, email_key, email_otp), email_key)
             /\ otp_result'.fully_verified <=>
                   /\ otp_result'.sms_verification[1].verified
                   /\ otp_result'.email_verification[1].verified]_vars

\* verify_dual_channel has returned with the SMS code wrong and the email code
\* verified.
C18_Witness ==
    /\ otp_result.op = "verify_dual_channel"
    /\ ~otp_result.fully_verified
    /\ otp_result.sms_verification # None
    /\ otp_result.sms_verification[1].status = "invalid"
    /\ otp_result.sms_verification[1].remaining_attempts # None
    /\ otp_result.email_verification # None
    /\ otp_result.email_verification[1].verified
    /\ otp_store[_get_storage_key(Email, "email")].verified

(***************************************************************************)
(* ProxyManager: the empty pool and malformed lines                        *)
(***************************************************************************)
\* C19: with an empty pool, get_proxy_for_country and rotate_proxy_for_country
\* return None without raising, for a tenant with or without rotation state,
\* and leave country_proxy_index and used_proxies as they are.
C19_EmptyPoolNoIdentity ==
    [][\A c \in ProxyTenants :
          (proxies = <<>> /\ (get_proxy_for_country(c) \/ rotate_proxy_for_country(c))) =>
              /\ proxy_result'.proxy = None
              /\ proxy_result'.raised = ""
              /\ country_proxy_index' = country_proxy_index
              /\ used_proxies' = used_proxies
              /\ proxies' = <<>>]_vars

\* A rotation was asked for with an empty pool, for a tenant that still has an
\* index and a history from an earlier pool.
C19_Witness ==
    /\ proxies = <<>>
    /\ proxy_result.op = "rotate_proxy_for_country"
    /\ proxy_result.proxy = None
    /\ proxy_result.country_code \in DOMAIN country_proxy_index
    /\ proxy_result.country_code \in DOMAIN used_proxies
    /\ used_proxies[proxy_result.country_code] # <<>>

\* A line that is a host:port:username:password record with a numeric port.
WellFormed(parts) == Len(parts) >= 4 /\ parts[2] \in DOMAIN IntOf

\* The identities of the well-formed lines of a body, in order.
WellFormedProxies(text) ==
    LET lines == SelectSeq(text, WellFormed) IN
    [i \in 1..Len(lines) |->
        Proxy(lines[i][1], IntOf[lines[i][2]], lines[i][3], lines[i][4])]

\* C20: a fetch that is answered with status 200 puts every well-formed line
\* of the response into the pool, whatever malformed lines (too few fields, a
\* port that is not a number) stand between them, and succeeds when there is
\* at least one.
C20_MalformedLinesSkipped ==
    [][\A r \in Responses :
          (fetch_proxies(r) /\ r.status_code = 200) =>
              /\ proxies' = WellFormedProxies(r.text)
              /\ proxy_result'.ok <=> WellFormedProxies(r.text) # <<>>]_vars

(***************************************************************************)
(* ScreenDetector: detect on the pages above and get_next_action on every  *)
(* screen type.                                                            *)
(***************************************************************************)
DetectorNext ==
    \/ \E page \in Pages :
           /\ Len(screen_history) < MaxDetects
           /\ detect(page)
    \/ \E screen_type \in ScreenType : get_next_action(screen_of(screen_type))
    \/ /\ last_screen # None
       /\ get_next_action(last_screen[1])

DetectorSpec == Init /\ [][DetectorNext]_vars

\* C21: get_next_action returns no action for the screens unknown, error,
\* blocked and maintenance, "enter_otp" for the OTP verification screen and
\* "select_date" for the date selection screen.
C21_NoActionForFaultScreens ==
    detector_result.op = "get_next_action" =>
        LET screen_type == detector_result.screen_info[1].screen_type
        IN  /\ screen_type \in {"unknown", "error", "blocked", "maintenance"}
                => detector_result.action = None
            /\ screen_type = "otp_verification"
                => detector_result.action = Some("enter_otp")
            /\ screen_type = "date_selection"
                => detector_result.action = Some("select_date")

(***************************************************************************)
(* AvailabilityChecker: checkers of every configuration checking the       *)
(* calendar pages.                                                         *)
(***************************************************************************)
CheckerNext ==
    \/ \E dates \in PreferredDates, days \in PreferredDays :
           AvailabilityChecker(dates, days)
    \/ \E page \in CalendarPages, location \in Locations : check(page, location, "")

CheckerSpec == Init /\ [][CheckerNext]_vars

\* The slots check returned last.
returned_slots ==
    IF check_result.op = "check" THEN check_result.result[1].available_dates ELSE <<>>

\* C22: with neither preferred_dates nor preferred_days configured, every
\* DateSlot that check returns is marked is_preferred.
C22_NoPreferenceAcceptsAll ==
    preferred_dates = <<>> /\ preferred_days = <<>> =>
        \A i \in 1..Len(returned_slots) : returned_slots[i].is_preferred

C22_Witness ==
    /\ preferred_dates = <<>> /\ preferred_days = <<>>
    /\ Len(returned_slots) = 2
    /\ returned_slots[1].day_name = "Cuma"
    /\ returned_slots[2].day_name = ""
    /\ returned_slots[2].is_preferred

\* The weekday a slot's date falls on, None for a date that is no calendar
\* date.
falls_on(date_slot) ==
    IF strptime(date_slot.date) = None THEN None
    ELSE Some(weekday(strptime(date_slot.date)[1]))

Friday == 4

\* C23: with preferred_days = {"Friday"} and no preferred_dates, the slots
\* check marks is_preferred are exactly those whose date falls on a Friday.
C23_FridaySlotsPreferred ==
    preferred_dates = <<>> /\ preferred_days = <<"Friday">> =>
        \A i \in 1..Len(returned_slots) :
            falls_on(returned_slots[i]) # None =>
                (returned_slots[i].is_preferred
                    <=> falls_on(returned_slots[i]) = Some(Friday))

(***************************************************************************)
(* Notifier and the scanner's on-found callback.  The notifier and the     *)
(* scanner share no state: a behaviour exercises the one or the other.     *)
(***************************************************************************)
NotifierNext ==
    \/ \E channel \in NotifierChannels :
           /\ Len(channels) < MaxChannels
           /\ add_channel(channel)
    \/ \E callback \in NotifierCallbacks :
           /\ Len(callbacks) < MaxCallbacks
           /\ add_callback(callback)
    \/ \E args \in NotifyArgs :
           /\ Len(notifier_history) < MaxNotifies
           /\ notify(args[1], args[2], args[3], args[4], None, None)

NotifyNext ==
    \/ /\ loop_pc = "unbuilt"
       /\ NotifierNext
    \/ /\ NotifierInit
       /\ ScannerNext

NotifySpec == Init /\ [][NotifyNext]_vars

\* The names of the enabled channels, in order.
RECURSIVE enabled_names(_, _)
enabled_names(chans, i) ==
    IF i > Len(chans) THEN <<>>
    ELSE (IF chans[i].enabled THEN <<chans[i].name>> ELSE <<>>)
             \o enabled_names(chans, i + 1)

\* C24: notify does not raise whatever its callbacks and channels do; it calls
\* every callback and the send of every enabled channel, also after one of
\* them raised; it returns true exactly when the send of an enabled channel
\* returned true; and an on-found callback that raises leaves the scan loop
\* running: the loop goes on to its wait between scans.
C24_DeliveryFailureSwallowed ==
    [][/\ notify_result'.op = "notify" =>
              /\ ~notify_result'.raised
              /\ notify_result'.called =
                     [i \in 1..Len(callbacks') |-> callbacks'[i].name]
              /\ notify_result'.sent = enabled_names(channels', 1)
              /\ notify_result'.success <=>
                     \E i \in 1..Len(channels') :
                         channels'[i].enabled /\ channels'[i].send = "true"
       /\ (loop_pc = "safe_callback" /\ loop_pc' # loop_pc) =>
              loop_pc' = "wait_with_interrupt"]_vars

C24_Witness ==
    /\ notify_result.op = "notify"
    /\ Len(callbacks) = 2 /\ callbacks[1].outcome = "raises"
    /\ Len(channels) = 2 /\ channels[1].send = "raises" /\ channels[2].send = "true"
    /\ notify_result.success

(***************************************************************************)
(* SMSOTPStore: messages arriving, reads, marks and clears, a minute apart *)
(* or at the same reading of the clock.                                    *)
(***************************************************************************)
SmsNext ==
    \/ \E message \in Messages :
           /\ Len(codes) < MaxCodes
           /\ add_sms("VFS", message)
    \/ get_latest_code
    \/ \E code \in SmsCodes : mark_as_used(code)
    \/ clear_all
    \/ /\ now < MaxSmsTime
       /\ SmsTick

SmsSpec == Init /\ [][SmsNext]_vars

\* A step that is a call of get_latest_code.
LatestRead == sms_trace'.since = {} /\ sms_call'.op = "get_latest_code" /\ now' = now

\* The entry the last get_latest_code returned is too old to be kept.
AgedOut == sms_trace.read[1].received_at <= now - cutoff_minutes

\* C25 as stated: get_latest_code returns the code of the most recently
\* received entry that is not marked used and consumes nothing; reads with
\* no add_sms, mark_as_used or age-out between them return the same code; and
\* a code stops being returned only after mark_as_used was called for it.
C25_Original ==
    [][LatestRead =>
          /\ Len(codes') = Len(live_codes(codes, now - cutoff_minutes))
          /\ \A i \in 1..Len(codes') : codes'[i] = live_codes(codes, now - cutoff_minutes)[i]
          /\ IF sms_call'.code = None
             THEN \A i \in 1..Len(codes') : codes'[i].used
             ELSE \E i \in 1..Len(codes') :
                      /\ ~codes'[i].used
                      /\ codes'[i].code = sms_call'.code[1]
                      /\ \A j \in 1..Len(codes') :
                             ~codes'[j].used =>
                                 codes'[j].received_at <= codes'[i].received_at
          /\ (/\ sms_trace.read # None
              /\ \A call \in sms_trace.since :
                     call[1] \notin {"add_sms", "mark_as_used"}
              /\ ~AgedOut)
                 => sms_call'.code = Some(sms_trace.read[1].code)
          /\ (/\ sms_trace.read # None
              /\ sms_call'.code # Some(sms_trace.read[1].code))
                 => <<"mark_as_used", Some(sms_trace.read[1].code)>> \in sms_trace.since
      ]_vars

\* C25, amended: get_latest_code returns the code of the most recently
\* received entry that is not marked used and consumes nothing; reads with
\* no add_sms, mark_as_used, clear_all or age-out between them return the
\* same code; and a code stops being returned only after mark_as_used was
\* called for it, another message brought a code, clear_all was called, or
\* the entry aged out.
C25_LatestUnusedNotConsumed ==
    [][LatestRead =>
          /\ Len(codes') = Len(live_codes(codes, now - cutoff_minutes))
          /\ \A i \in 1..Len(codes') : codes'[i] = live_codes(codes, now - cutoff_minutes)[i]
          /\ IF sms_call'.code = None
             THEN \A i \in 1..Len(codes') : codes'[i].used
             ELSE \E i \in 1..Len(codes') :
                      /\ ~codes'[i].used
                      /\ codes'[i].code = sms_call'.code[1]
                      /\ \A j \in 1..Len(codes') :
                             ~codes'[j].used =>
                                 codes'[j].received_at <= codes'[i].received_at
          /\ (/\ sms_trace.read # None
              /\ sms_call'.code # Some(sms_trace.read[1].code))
                 => \/ <<"mark_as_used", Some(sms_trace.read[1].code)>> \in sms_trace.since
                    \/ \E code \in SmsCodes : <<"add_sms", Some(code)>> \in sms_trace.since
                    \/ <<"clear_all", None>> \in sms_trace.since
                    \/ AgedOut
      ]_vars

C25_Witness ==
    /\ sms_call.op = "get_latest_code"
    /\ sms_call.code = Some("654321")
    /\ Len(codes) = 2
    /\ codes[1].code = "123456" /\ ~codes[1].used
    /\ codes[2].received_at > codes[1].received_at
    /\ now > codes[2].received_at

(***************************************************************************)
(* request_login statement by statement, with release_login and the status *)
(* reports of the workflows between the calls.  The event loop goes on     *)
(* with the running call until it returns or suspends.                     *)
(***************************************************************************)
LoginStepNext ==
    \/ \E c \in Tenants :
           /\ Len(waiting_order) < MaxLogins
           /\ request_login_call(c)
    \/ \E c \in Tenants : request_login_acquire(c)
    \/ \E c \in Tenants : request_login_enter(c)
    \/ \E c \in Tenants : request_login_return(c)
    \/ \E c \in Tenants :
           /\ running = None
           /\ release_login(c)

LoginStepSpec ==
    /\ Init
    /\ [][LoginStepNext]_vars
    /\ \A c \in Tenants :
           /\ WF_vars(request_login_acquire(c))
           /\ WF_vars(request_login_enter(c))
           /\ WF_vars(request_login_return(c))

status_of(ss, country_code) ==
    IF country_code \in DOMAIN ss THEN ss[country_code].status ELSE "absent"

C27_FirstComeFirstServed ==
    /\ [][\A c \in Tenants :
             (/\ status_of(sessions', c) = "logging_in"
              /\ status_of(sessions, c) # "logging_in")
                 => /\ status_of(sessions, c) = "waiting_login"
                    /\ login_lock /\ login_lock'
                    /\ login_pc[c] = "locked"]_vars
    /\ [](/\ Len(login_order) <= Len(waiting_order)
          /\ \A i \in 1..Len(login_order) : login_order[i] = waiting_order[i])

C27_Witness ==
    /\ Len(login_order) = 3
    /\ login_order[1] # login_order[2]
    /\ login_order[3] = login_order[1]
    /\ login_lock

\* C28: login_lock is taken only inside a request_login call: whenever no
\* call is in progress the lock is free, whatever the statuses of the
\* tenants, and release_login leaves the lock as it is.
C28_LockOnlyInsideRequest ==
    /\ []((\A c \in Tenants : login_pc[c] = "idle") => ~login_lock)
    /\ [][(running = None /\ running' = None) => login_lock' = login_lock]_vars

C28_Witness ==
    /\ \A c \in Tenants : login_pc[c] = "idle"
    /\ \E c \in Tenants : status_of(sessions, c) = "logging_in"
    /\ \E c \in Tenants : status_of(sessions, c) = "scanning"
    /\ ~login_lock

\* C29: whenever the pool is non-empty, every stored rotation index is an
\* index into it, and no call of get_proxy_for_country,
\* rotate_proxy_for_country or get_stats indexes outside the pool.
C29_IndexInsidePool ==
    /\ proxies # <<>> =>
           \A code \in DOMAIN country_proxy_index :
               country_proxy_index[code] < Len(proxies)
    /\ proxy_result.raised # "IndexError"

\* C30: verify_otp fails closed.  For an unknown key or a record already
\* verified it returns verified = false with INVALID and leaves the store as
\* it is; for a record past its expiry it returns EXPIRED, and for a record
\* with max_attempts attempts MAX_ATTEMPTS_EXCEEDED, in that order of
\* precedence, and removes the record; in none of the four cases an attempt
\* is counted.
C30_VerifyFailsClosed ==
    [][(now' = now /\ otp_result'.op = "verify_otp") =>
          LET storage_key == otp_result'.key
              unknown     == storage_key \notin DOMAIN otp_store
              record      == otp_store[storage_key]
              used        == ~unknown /\ record.verified
              expired     == ~unknown /\ now > record.expires_at
              exhausted   == ~unknown /\ record.attempts >= max_attempts
          IN  (unknown \/ used \/ expired \/ exhausted) =>
                 /\ ~otp_result'.verified
                 /\ otp_result'.status =
                        IF unknown \/ used THEN "invalid"
                        ELSE IF expired THEN "expired"
                        ELSE "max_attempts_exceeded"
                 /\ (unknown \/ used) => otp_store' = otp_store
                 /\ ~(unknown \/ used) =>
                        /\ storage_key \notin DOMAIN otp_store'
                        /\ otp_store' = DictDel(otp_store, storage_key)
                 /\ \A k \in DOMAIN otp_store' :
                        otp_store'[k].attempts = otp_store[k].attempts]_vars

\* C30 witness: after max_attempts wrong guesses and the expiry of the code, a
\* verify_otp has returned EXPIRED and the record is gone.
C30_Witness ==
    /\ otp_result.op = "verify_otp"
    /\ otp_result.status = "expired"
    /\ otp_calls[otp_result.key].wrong_returns = max_attempts
    /\ otp_result.key \notin DOMAIN otp_store

\* C31: reissue is invalidate-then-issue.  After resend_otp or
\* generate_and_send_otp for a key, whatever record the key had before, the
\* key has one record with attempt count 0 and verified = false that holds
\* the digest of the newly generated code and the new expiry, and the records
\* of the other keys are as before; a later verify_otp for the key returns
\* verified only for the code of the key's last issuance.
C31_ReissueReplacesRecord ==
    /\ [][(now' = now /\ otp_result'.op \in {"resend_otp", "generate_and_send_otp"}) =>
             LET storage_key == otp_result'.key
                 issued      == otp_calls'[storage_key].code
             IN  /\ storage_key \in DOMAIN otp_store'
                 /\ issued # None
                 /\ otp_store'[storage_key].attempts = 0
                 /\ otp_store'[storage_key].verified = FALSE
                 /\ otp_store'[storage_key].otp_hash = _hash_otp(issued[1])
                 /\ otp_store'[storage_key].created_at = now
                 /\ otp_store'[storage_key].expires_at = now + expiry_minutes
                 /\ DOMAIN otp_store' = DOMAIN otp_store \cup {storage_key}
                 /\ \A k \in DOMAIN otp_store' \ {storage_key} :
                        otp_store'[k] = otp_store[k]]_vars
    /\ [][(now' = now /\ otp_result'.op = "verify_otp" /\ otp_result'.verified) =>
             /\ otp_calls[otp_result'.key].code = Some(otp_result'.candidate)
             /\ otp_store[otp_result'.key].otp_hash =
                    _hash_otp(otp_result'.candidate)]_vars

\* C31 witness: a key is reissued by resend_otp after time has passed, while
\* the other key holds a verified record with all attempts used: the reissued
\* key's record is fresh and the other record is kept.
C31_Witness ==
    /\ otp_result.op = "resend_otp"
    /\ now > 0
    /\ otp_result.key \in DOMAIN otp_store
    /\ otp_store[otp_result.key].created_at = now
    /\ otp_store[otp_result.key].attempts = 0
    /\ \E k \in DOMAIN otp_store :
          /\ k # otp_result.key
          /\ otp_store[k].verified
          /\ otp_store[k].attempts = max_attempts

\* C32: for an issued record that has not expired, the k-th consecutive wrong
\* verify_otp call since the issuance (1 <= k <= max_attempts) returns
\* INVALID, not verified, with remaining_attempts = max_attempts - k; with
\* max_attempts = 3 the second wrong guess reports 1 and the third reports 0.
C32_RemainingAttempts ==
    [][(now' = now /\ otp_result'.op = "verify_otp") =>
          LET storage_key == otp_result'.key
              seen        == otp_calls[storage_key]
              k           == seen.wrong_returns + 1
          IN  (/\ storage_key \in DOMAIN otp_store
               /\ now <= otp_store[storage_key].expires_at
               /\ seen.verified_returns = 0
               /\ seen.code # Some(otp_result'.candidate)
               /\ k <= max_attempts) =>
                 /\ ~otp_result'.verified
                 /\ otp_result'.status = "invalid"
                 /\ otp_result'.remaining_attempts = Some(max_attempts - k)
                 /\ k = 2 => otp_result'.remaining_attempts = Some(1)
                 /\ k = 3 => otp_result'.remaining_attempts = Some(0)]_vars

\* C32 witness: the third wrong guess for a live record has reported 0
\* remaining attempts.
C32_Witness ==
    /\ otp_result.op = "verify_otp"
    /\ otp_result.status = "invalid"
    /\ otp_result.remaining_attempts = Some(0)
    /\ otp_calls[otp_result.key].wrong_returns = 3
    /\ otp_calls[otp_result.key].verified_returns = 0
    /\ otp_result.key \in DOMAIN otp_store
    /\ now <= otp_store[otp_result.key].expires_at

\* C33: every stored record's attempt count is between 0 and max_attempts.
\* A verify_otp call that reaches the digest comparison (the record exists,
\* is not verified, has not expired and has attempts left) raises the count
\* of its record by exactly one, for a correct guess as for a wrong one; a
\* rejected verify_otp call and get_otp_status change the count of no stored
\* record.
C33_AttemptCountBounds ==
    /\ [](\A k \in DOMAIN otp_store :
             /\ otp_store[k].attempts >= 0
             /\ otp_store[k].attempts <= max_attempts)
    /\ [][(now' = now /\ otp_result'.op = "verify_otp") =>
             LET storage_key == otp_result'.key
                 compared    == /\ storage_key \in DOMAIN otp_store
                                /\ ~otp_store[storage_key].verified
                                /\ now <= otp_store[storage_key].expires_at
                                /\ otp_store[storage_key].attempts < max_attempts
             IN  /\ compared =>
                       /\ storage_key \in DOMAIN otp_store'
                       /\ otp_store'[storage_key].attempts =
                              otp_store[storage_key].attempts + 1
                 /\ \A k \in DOMAIN otp_store' :
                       (~compared \/ k # storage_key) =>
                           /\ k \in DOMAIN otp_store
                           /\ otp_store'[k].attempts = otp_store[k].attempts]_vars
    /\ [][(now' = now /\ otp_result'.op = "get_otp_status") =>
             otp_store' = otp_store]_vars

\* C33 witness: a correct guess made as the last allowed attempt has been
\* verified and counted, so the record's count is max_attempts.
C33_Witness ==
    /\ otp_result.op = "verify_otp"
    /\ otp_result.verified
    /\ otp_calls[otp_result.key].wrong_returns = max_attempts - 1
    /\ otp_result.key \in DOMAIN otp_store
    /\ otp_store[otp_result.key].attempts = max_attempts

\* C34: with a non-empty pool, every rotate_proxy_for_country call for a
\* tenant that has an index moves the index to (index + 1) modulo the pool
\* size and appends the descriptor of the identity used before the call to the
\* tenant's history, which so grows by one with every such call.
C34_RotateAdvancesAndRecords ==
    [][(/\ proxy_result'.op = "rotate_proxy_for_country"
        /\ proxies # <<>>
        /\ proxy_result'.country_code \in DOMAIN country_proxy_index) =>
          LET country_code  == proxy_result'.country_code
              current_index == country_proxy_index[country_code]
          IN  /\ country_code \in DOMAIN country_proxy_index'
              /\ country_proxy_index'[country_code] =
                     (current_index + 1) % Len(proxies)
              /\ country_code \in DOMAIN used_proxies'
              /\ used_proxies'[country_code] =
                     Append(used_proxies[country_code],
                            ProxyStr(proxies[current_index + 1]))]_vars

(***************************************************************************)
(* SessionManager: the accumulated counters of one tenant over time        *)
(***************************************************************************)
\* One tenant, every mutating operation of SessionManager, and the clock
\* that datetime.now() reads.
CounterTenant == "fra"

CounterNext ==
    \/ session_operation(CounterTenant)
    \/ Tick

CounterSpec == Init /\ [][CounterNext]_vars

\* C35: an update_scan_progress call raises the tenant's total_checks by
\* exactly one and leaves appointments_found, a record_appointment_found
\* call raises appointments_found by exactly one and leaves total_checks, and
\* each of the two sets last_update to the time of the call; under every
\* operation other than reset_session (start_session and stop_session
\* included) neither counter decreases.
C35_CountersStepByOne ==
    [][LET c      == CounterTenant
           before == session_of(sessions, c)
           after  == session_of(sessions', c)
       IN  /\ (\E p \in ProgressReports : update_scan_progress(c, p[1], p[2], p[3])) =>
                 /\ after.total_checks = before.total_checks + 1
                 /\ after.appointments_found = before.appointments_found
                 /\ after.last_update = Some(now)
           /\ record_appointment_found(c) =>
                 /\ after.appointments_found = before.appointments_found + 1
                 /\ after.total_checks = before.total_checks
                 /\ after.last_update = Some(now)
           /\ ~reset_session(c) =>
                 /\ after.appointments_found >= before.appointments_found
                 /\ after.total_checks >= before.total_checks
           /\ (start_session(c, None) \/ stop_session(c)) =>
                 /\ after.appointments_found = before.appointments_found
                 /\ after.total_checks = before.total_checks]_vars

\* C35 witness: the tenant was started, reported a check and an appointment
\* at a later time, and was started again later still with its counters kept.
C35_Witness ==
    /\ CounterTenant \in DOMAIN sessions
    /\ sessions[CounterTenant].status = "checking"
    /\ sessions[CounterTenant].total_checks > 0
    /\ sessions[CounterTenant].appointments_found > 0
    /\ sessions[CounterTenant].start_time = Some(now)
    /\ sessions[CounterTenant].last_update = Some(now)
    /\ sessions[CounterTenant].current_round = 0
    /\ now > 0

\* The entries of URL_PATTERNS with a pattern found in the URL, and the
\* entries of SCREEN_SELECTORS with a selector whose probe returns an element.
url_entries(page) ==
    {i \in 1..Len(URL_PATTERNS) :
        \E j \in 1..Len(URL_PATTERNS[i].patterns) :
            re_search(URL_PATTERNS[i].patterns[j], page.url)}

selector_entries(page) ==
    {i \in 1..Len(SCREEN_SELECTORS) :
        \E j \in 1..Len(SCREEN_SELECTORS[i].selectors) :
            /\ SCREEN_SELECTORS[i].selectors[j] \notin page.raising
            /\ SCREEN_SELECTORS[i].selectors[j] \in page.present}

first_entry(entries) == CHOOSE i \in entries : \A k \in entries : i <= k

\* The page a ScreenInfo was built from: the pages shown differ in URL or
\* title, and detect copies both.
shown_page(screen_info) ==
    CHOOSE page \in Pages :
        page.url = screen_info.url /\ page.title = Some(screen_info.title)

\* C36: a detect call that returns takes the screen type of the first entry
\* of URL_PATTERNS that has a pattern in the URL whenever there is one;
\* otherwise the type of the first entry of SCREEN_SELECTORS that has a
\* selector present on the page, a probe that raises being skipped; and it
\* returns UNKNOWN exactly when no URL pattern and no selector matches.
C36_UrlBeforeElements ==
    [][(detector_result'.op = "detect" /\ ~detector_result'.raised
           /\ screen_history' # screen_history) =>
              LET page        == shown_page(detector_result'.screen_info[1])
                  screen_type == detector_result'.screen_info[1].screen_type
                  by_url      == url_entries(page)
                  by_selector == selector_entries(page)
              IN  /\ by_url # {} =>
                        screen_type = URL_PATTERNS[first_entry(by_url)].screen_type
                  /\ (by_url = {} /\ by_selector # {}) =>
                        screen_type =
                            SCREEN_SELECTORS[first_entry(by_selector)].screen_type
                  /\ screen_type = "unknown" <=>
                        (by_url = {} /\ by_selector = {})]_vars

\* C36 witness: detect has classified a page whose URL matches two entries of
\* URL_PATTERNS and which shows the calendar of another screen type, by the
\* first of the URL entries.
C36_Witness ==
    /\ detector_result.op = "detect"
    /\ ~detector_result.raised
    /\ detector_result.screen_info[1].url = <<"/vfs", "/appointment", "/dates">>
    /\ detector_result.screen_info[1].screen_type = "appointment_selection"
    /\ "otp_verification" \in {screen_history[i] : i \in 1..Len(screen_history)}
    /\ "unknown" \in {screen_history[i] : i \in 1..Len(screen_history)}

(***************************************************************************)
(* ScreenDetector: long runs of detect calls.  A scan polls the page it is *)
(* on and moves on rarely: the detector is shown a login page, a page it   *)
(* cannot classify and a page that is gone, at most MaxCalls               *)
(* classifications are made and the classified type changes at most        *)
(* MaxSwitches times.                                                      *)
(***************************************************************************)
MaxCalls == 52

MaxSwitches == 1

PolledPages == {page \in Pages : page.title \in {Some("Login"), Some("Hata"), None}}

\* How often two consecutive ScreenInfo of a list differ in screen type.
RECURSIVE switches(_)
switches(list) ==
    IF Len(list) < 2 THEN 0
    ELSE (IF list[1].screen_type # list[2].screen_type THEN 1 ELSE 0)
         + switches(Tail(list))

HistoryNext ==
    \E page \in PolledPages :
        /\ Len(detect_returns) < MaxCalls
        /\ detect(page)
        /\ switches(detect_returns') <= MaxSwitches

HistorySpec == Init /\ [][HistoryNext]_vars

\* C37: after n detect calls that returned, screen_history holds the screen
\* types of the last min(n, 50) of them in call order, so it never has more
\* than 50 entries; and what detect returns for a page is the same whatever
\* screen_history and last_screen held at the call.
C37_HistoryIsLastFifty ==
    LET n == Len(detect_returns)
        m == Len(screen_history)
    IN  /\ m = IF n < 50 THEN n ELSE 50
        /\ \A i \in 1..m : screen_history[i] = detect_returns[n - m + i].screen_type
        /\ \A i, j \in 1..n :
              (/\ detect_returns[i].url = detect_returns[j].url
               /\ detect_returns[i].title = detect_returns[j].title) =>
                  detect_returns[i] = detect_returns[j]
        /\ last_screen = IF n = 0 THEN None ELSE Some(detect_returns[n])

\* C37 witness: 52 classifications were made, the first of a login page and
\* the last of a page of unknown type; the history has 50 entries and has
\* lost the first two.
C37_Witness ==
    /\ Len(detect_returns) = 52
    /\ Len(screen_history) = 50
    /\ detect_returns[1].screen_type = "login"
    /\ detect_returns[3].screen_type = "unknown"
    /\ screen_history[1] = "unknown"

\* C38: no entry of URL_PATTERNS or SCREEN_SELECTORS maps to ERROR, BLOCKED
\* or MAINTENANCE, so no ScreenInfo that detect returns has one of these
\* types, is_error_state is false for each of them, and get_next_action does
\* not return "handle_error" for a ScreenInfo that detect returned.
C38_DetectNeverReportsFault ==
    /\ \A i \in 1..Len(URL_PATTERNS) :
          URL_PATTERNS[i].screen_type \notin {"error", "blocked", "maintenance"}
    /\ \A i \in 1..Len(SCREEN_SELECTORS) :
          SCREEN_SELECTORS[i].screen_type \notin {"error", "blocked", "maintenance"}
    /\ \A i \in 1..Len(detect_returns) :
          /\ detect_returns[i].screen_type \notin {"error", "blocked", "maintenance"}
          /\ ~is_error_state(detect_returns[i])
    /\ (/\ detector_result.op = "get_next_action"
        /\ \E i \in 1..Len(detect_returns) :
              detector_result.screen_info = Some(detect_returns[i])) =>
           detector_result.action # Some("handle_error")

\* C38 witness: detect has classified a page that shows an error element
\* (has_error with its message) as UNKNOWN, and get_next_action has returned
\* no action for it.
C38_Witness ==
    /\ detector_result.op = "get_next_action"
    /\ detector_result.screen_info = last_screen
    /\ last_screen # None
    /\ last_screen[1].has_error
    /\ last_screen[1].error_message = Some("Session expired")
    /\ last_screen[1].screen_type = "unknown"
    /\ detector_result.action = None

(***************************************************************************)
(* AvailabilityChecker: check_multiple_months on calendars of MaxMonths    *)
(* months, by checkers of every configuration.                             *)
(***************************************************************************)
MaxMonths == 3

\* Three calendar pages: one free day, two free days, no appointment.
MonthPages ==
    <<CalendarPage(Some("Randevu takvimi"),
                   Some(<<Day(Some("2024-01-05"), Some("5"), FALSE)>>)),
      CalendarPage(Some("Randevu takvimi"),
                   Some(<<Day(Some("2024-02-02"), None, FALSE),
                          Day(None, Some(" 2024-01-06 "), FALSE)>>)),
      CalendarPage(Some("No Appointment available"), Some(<<>>))>>

\* The months a calendar shows: the three pages in turn, from any of them on.
MonthLists ==
    {[p \in 1..MaxMonths |-> MonthPages[((p + shift) % Len(MonthPages)) + 1]] :
        shift \in 1..Len(MonthPages)}

Controls == {"advances", "absent", "query_raises", "click_raises"}

Calendars ==
    {Calendar(months, next) : months \in MonthLists,
                              next \in [1..MaxMonths - 1 -> Controls]}

MonthsNext ==
    \/ \E dates \in PreferredDates, days \in PreferredDays :
           AvailabilityChecker(dates, days)
    \/ \E calendar \in Calendars, months \in 1..MaxMonths :
           check_multiple_months(calendar, months)

MonthsSpec == Init /\ [][MonthsNext]_vars

\* The dates check returns for months 1..m of a calendar, one after another.
RECURSIVE dates_of_months(_, _)
dates_of_months(calendar, m) ==
    IF m = 0 THEN <<>>
    ELSE dates_of_months(calendar, m - 1)
         \o check_returned(calendar.months[m], "", "").available_dates

\* C39: on a calendar whose months each show a next-month control,
\* check_multiple_months(months = m) returns; it has run check once on each of
\* the months 1..m in order, also when the query for the control or the click
\* on it fails on one of them; the dates it returns are the dates of these
\* months, and has_availability is true exactly when there is one.
C39_AllMonthsChecked ==
    (/\ check_result.op = "check_multiple_months"
     /\ \A p \in 1..check_result.months - 1 :
           check_result.page[1].next[p] # "absent") =>
        /\ ~check_result.raised
        /\ check_result.result # None
        /\ check_result.visited = [p \in 1..check_result.months |-> p]
        /\ check_result.result[1].available_dates =
               dates_of_months(check_result.page[1], check_result.months)
        /\ check_result.result[1].has_availability =
               (check_result.result[1].available_dates # <<>>)

(***************************************************************************)
(* retry: wrapper calls with every max_attempts up to MaxRetryAttempts,    *)
(* around a function that returns or raises at every invocation.  An       *)
(* invocation that has begun ends and a sleep that has begun is over after *)
(* its delay: the wrapped function terminates and the event loop runs its  *)
(* timers.                                                                 *)
(***************************************************************************)
RetryNext ==
    \/ \E args \in RetryArgs : wrapper(args)
    \/ \E outcome \in FuncOutcomes : func_returns(outcome)
    \/ \E outcome \in FuncOutcomes : func_raises(outcome)
    \/ backoff_sleep_done

RetrySpec ==
    /\ Init
    /\ [][RetryNext]_vars
    /\ WF_vars(\E outcome \in FuncOutcomes : func_returns(outcome) \/ func_raises(outcome))
    /\ WF_vars(backoff_sleep_done)

\* The invocations of the wrapped function in the log of a wrapper call.
invocations(log) == SelectSeq(log, LAMBDA e : e.kind \in {"returns", "raises"})

\* C40: a call of the wrapper of retry(max_attempts = n), n >= 1, invokes the
\* function at most n times; it returns the value of the first invocation
\* that returns and invokes nothing after it; it sleeps after a failed
\* invocation exactly when another invocation follows; after n failed
\* invocations it raises the exception of the last one; and every call of the
\* wrapper ends.
C40_RetryBounded ==
    /\ [](LET n     == retry_frame.max_attempts
              calls == invocations(retry_log)
          IN  /\ Len(calls) <= n
              /\ \A i \in 1..Len(retry_log) :
                    /\ i < Len(retry_log) => retry_log[i].kind # "returns"
                    /\ retry_log[i].kind = "sleeps" <=> i % 2 = 0
              /\ retry_pc \in {"returned", "raised"} =>
                    /\ retry_log # <<>>
                    /\ retry_log[Len(retry_log)].kind # "sleeps"
              /\ retry_pc = "returned" =>
                    /\ retry_log[Len(retry_log)].kind = "returns"
                    /\ retry_result =
                           RetryResult("returned", Some(retry_log[Len(retry_log)].value))
              /\ retry_pc = "raised" =>
                    /\ Len(calls) = n
                    /\ \A i \in 1..n : calls[i].kind = "raises"
                    /\ retry_result = RetryResult("raised", Some(calls[n].value))
              /\ retry_pc \in {"attempt", "sleeping"} =>
                    \A i \in 1..Len(calls) : calls[i].kind = "raises")
    /\ [][(retry_pc \in {"returned", "raised"}) =>
             retry_log' \in {retry_log, <<>>}]_vars
    /\ (retry_pc \in {"attempt", "sleeping"}) ~> (retry_pc \in {"returned", "raised"})

\* C40 witness: a wrapper with max_attempts = 3 has raised after three failed
\* invocations, the last failure differing from the first, with two sleeps of
\* growing delay between them.
C40_Witness ==
    /\ retry_pc = "raised"
    /\ retry_frame.max_attempts = 3
    /\ Len(retry_log) = 5
    /\ retry_log[1].value = "TimeoutError"
    /\ retry_log[2] = RetryResult("sleeps", 1)
    /\ retry_log[4] = RetryResult("sleeps", 2)
    /\ retry_log[5].value = "ValueError"
    /\ retry_result = RetryResult("raised", Some("ValueError"))

====
